---- MODULE Spec2Model ----
(***************************************************************************)
(* Verification model of the division-scheme server core:                  *)
(*   - LayoutEngine   (src/server/layout_engine.py)                        *)
(*   - GOSTValidator  (src/server/gost_validator.py)                       *)
(*                                                                         *)
(* Conventions                                                             *)
(*   - Python's "/" yields k/2 values for the integer page sizes and       *)
(*     constants of the engine, so every coordinate is held exactly, in    *)
(*     HALF-MILLIMETRES: Mm(n) is n mm, HalfOf(n) is n/2 mm.               *)
(*   - Optional[T] is a tuple: << >> is None, <<v>> is the value v.        *)
(*   - A dict is a function; its key set is DOMAIN.  Where the code        *)
(*     iterates over a dict, the keys are taken in insertion order, held   *)
(*     as a sequence next to the function.                                 *)
(*   - A designation is a tuple of one-character strings, so that the      *)
(*     regular expression is matched character by character.               *)
(***************************************************************************)
EXTENDS Integers, Sequences, FiniteSets, TLC

VARIABLES
    request,          \* the CreateDivisionSchemeRequest under test
    pc,               \* position of the caller: "start", "validated", "placed"
                      \* or "checked"
    is_valid,         \* validate_request: first element of the returned tuple
    errors,           \* validate_request: second element (list of errors)
    warnings,         \* validate_request: third element (list of warnings)
    positions,        \* calculate_positions: returned dict {position: (x, y)}
    key_order,        \* the keys of that dict in insertion (= iteration) order
    layout_warnings   \* validate_layout: returned list of warnings

vars == <<request, pc, is_valid, errors, warnings, positions, key_order,
          layout_warnings>>

----------------------------------------------------------------------------
(* Bounds of the explored inputs *)

MaxLayoutComponents == 3
MaxLayoutLevel == 2
MaxComponents == 2
MaxLevel == 1
MaxFieldComponents == 2
MaxRepeatedPositions == 2
MaxRepeatedLength == 4
MaxFallbackComponents == 2
MaxFallbackLevel == 1
MaxSchemeComponents == 3
MaxSchemeLevel == 1
MaxBoundaryKeys == 2
MaxTreeComponents == 3
MaxTreeLevel == 2

----------------------------------------------------------------------------
(* Generic helpers *)

Min(a, b) == IF a < b THEN a ELSE b
Max(a, b) == IF a > b THEN a ELSE b

None == << >>
Some(v) == <<v>>

Mm(n) == 2 * n
HalfOf(n) == n

DictSet(d, k, v) == [j \in (DOMAIN d) \cup {k} |-> IF j = k THEN v ELSE d[j]]

EmptyDict == [j \in {} |-> <<0, 0>>]

(* the elements of S from the largest to the smallest *)
RECURSIVE SortedDescending(_)
SortedDescending(S) ==
    IF S = {} THEN << >>
    ELSE LET m == CHOOSE a \in S : \A b \in S : a >= b
         IN <<m>> \o SortedDescending(S \ {m})

RECURSIVE Sorted(_)
Sorted(S) ==
    IF S = {} THEN << >>
    ELSE LET m == CHOOSE a \in S : \A b \in S : a <= b
         IN <<m>> \o Sorted(S \ {m})

----------------------------------------------------------------------------
(* LayoutEngine: class constants, layout_engine.py:27-48 *)

COMPONENT_WIDTH == 60
COMPONENT_HEIGHT == 20
HORIZONTAL_SPACING == 20
VERTICAL_SPACING == 40
LEVEL_SPACING == 80
MARGIN_TOP == 40
MARGIN_LEFT == 40
MARGIN_RIGHT == 40
MARGIN_BOTTOM == 40

PAGE_SIZES ==
    [A0 |-> <<1189, 841>>,
     A1 |-> <<841, 594>>,
     A2 |-> <<594, 420>>,
     A3 |-> <<420, 297>>,
     A4 |-> <<297, 210>>]

(* _get_page_size without the orientation swap: the pair as PAGE_SIZES holds it *)
get_page_size_as_listed(page_format, orientation) ==
    IF page_format \in DOMAIN PAGE_SIZES
    THEN PAGE_SIZES[page_format]
    ELSE PAGE_SIZES["A3"]

(* _get_page_size whose default for an unlisted format is the A4 entry *)
get_page_size_default_A4(page_format, orientation) ==
    LET size == IF page_format \in DOMAIN PAGE_SIZES
                THEN PAGE_SIZES[page_format]
                ELSE PAGE_SIZES["A4"]
        width == size[1]
        height == size[2]
    IN IF orientation = "portrait"
       THEN <<Min(width, height), Max(width, height)>>
       ELSE <<Max(width, height), Min(width, height)>>

(* _get_page_size: dict.get with the A3 default, then the orientation swap *)
get_page_size(page_format, orientation) ==
    LET size == IF page_format \in DOMAIN PAGE_SIZES
                THEN PAGE_SIZES[page_format]
                ELSE PAGE_SIZES["A3"]
        width == size[1]
        height == size[2]
    IN IF orientation = "portrait"
       THEN <<Min(width, height), Max(width, height)>>
       ELSE <<Max(width, height), Min(width, height)>>

(* a grouping that orders the components of a level by position id *)
group_by_level_by_position(components) ==
    [l \in {components[i].level : i \in DOMAIN components} |->
        LET members == {components[i] : i \in {j \in DOMAIN components :
                                                   components[j].level = l}}
            ids == Sorted({c.position : c \in members})
        IN [i \in DOMAIN ids |-> CHOOSE c \in members : c.position = ids[i]]]

(* _group_by_level: {level: [components of that level, in input order]} *)
group_by_level(components) ==
    [l \in {components[i].level : i \in DOMAIN components} |->
        SelectSeq(components, LAMBDA c : c.level = l)]

(* int(available_width / (COMPONENT_WIDTH + HORIZONTAL_SPACING)), clamped to 1;
   available_width is positive for every PAGE_SIZES entry, so int() is a floor *)
items_per_row_of(available_width) ==
    Max(1, available_width \div (COMPONENT_WIDTH + HORIZONTAL_SPACING))

(* tree_row_loop that stops at the end of the first row ("break" where the
   code starts a new row) *)
RECURSIVE tree_row_loop_first_row_only(_, _, _, _, _, _, _)
tree_row_loop_first_row_only(items, idx, x, y, x_offset, items_per_row, placed) ==
    IF idx >= Len(items) \/ (idx > 0 /\ idx % items_per_row = 0)
    THEN [positions |-> placed, y |-> y]
    ELSE tree_row_loop_first_row_only(items, idx + 1,
                          x + Mm(COMPONENT_WIDTH + HORIZONTAL_SPACING), y,
                          x_offset, items_per_row,
                          DictSet(placed, items[idx + 1].position, <<x, y>>))

(* tree_row_loop that goes back to x_offset at the end of a row without
   moving down (line 161 lost) *)
RECURSIVE tree_row_loop_no_row_step(_, _, _, _, _, _, _)
tree_row_loop_no_row_step(items, idx, x, y, x_offset, items_per_row, placed) ==
    IF idx >= Len(items) THEN [positions |-> placed, y |-> y]
    ELSE LET wrap == idx > 0 /\ idx % items_per_row = 0
             x1 == IF wrap THEN x_offset ELSE x
         IN tree_row_loop_no_row_step(items, idx + 1,
                          x1 + Mm(COMPONENT_WIDTH + HORIZONTAL_SPACING), y,
                          x_offset, items_per_row,
                          DictSet(placed, items[idx + 1].position, <<x1, y>>))

(* the inner loop of _layout_tree (lines 157-164) from index idx on;
   idx is the 0-based enumerate index, items[idx + 1] the component *)
RECURSIVE tree_row_loop(_, _, _, _, _, _, _)
tree_row_loop(items, idx, x, y, x_offset, items_per_row, placed) ==
    IF idx >= Len(items) THEN [positions |-> placed, y |-> y]
    ELSE LET wrap == idx > 0 /\ idx % items_per_row = 0
             x1 == IF wrap THEN x_offset ELSE x
             y1 == IF wrap THEN y + Mm(COMPONENT_HEIGHT + VERTICAL_SPACING) ELSE y
         IN tree_row_loop(items, idx + 1,
                          x1 + Mm(COMPONENT_WIDTH + HORIZONTAL_SPACING), y1,
                          x_offset, items_per_row,
                          DictSet(placed, items[idx + 1].position, <<x1, y1>>))

(* tree_level_loop without "y += LEVEL_SPACING" after a level (line 167 lost) *)
RECURSIVE tree_level_loop_no_level_spacing(_, _, _, _, _, _)
tree_level_loop_no_level_spacing(levels, order, k, y, available_width, placed) ==
    IF k > Len(order) THEN placed
    ELSE LET items == levels[order[k]]
             items_per_row == items_per_row_of(available_width)
             total_width == Len(items) * (COMPONENT_WIDTH + HORIZONTAL_SPACING)
             x_offset == HalfOf(available_width - total_width) + Mm(MARGIN_LEFT)
             done == tree_row_loop(items, 0, x_offset, y, x_offset, items_per_row, placed)
         IN tree_level_loop_no_level_spacing(levels, order, k + 1, done.y,
                                             available_width, done.positions)

(* tree_level_loop that centres the first row of a level: the offset is taken
   from the number of components of one row, not of the whole level *)
RECURSIVE tree_level_loop_row_centred(_, _, _, _, _, _)
tree_level_loop_row_centred(levels, order, k, y, available_width, placed) ==
    IF k > Len(order) THEN placed
    ELSE LET items == levels[order[k]]
             items_per_row == items_per_row_of(available_width)
             total_width == Min(Len(items), items_per_row)
                            * (COMPONENT_WIDTH + HORIZONTAL_SPACING)
             x_offset == HalfOf(available_width - total_width) + Mm(MARGIN_LEFT)
             done == tree_row_loop(items, 0, x_offset, y, x_offset, items_per_row, placed)
         IN tree_level_loop_row_centred(levels, order, k + 1, done.y + Mm(LEVEL_SPACING),
                                        available_width, done.positions)

(* tree_level_loop whose offset leaves out the left margin: the rows are
   centred on the working width but counted from the edge of the sheet *)
RECURSIVE tree_level_loop_offset_from_edge(_, _, _, _, _, _)
tree_level_loop_offset_from_edge(levels, order, k, y, available_width, placed) ==
    IF k > Len(order) THEN placed
    ELSE LET items == levels[order[k]]
             items_per_row == items_per_row_of(available_width)
             total_width == Len(items) * (COMPONENT_WIDTH + HORIZONTAL_SPACING)
             x_offset == HalfOf(available_width - total_width)
             done == tree_row_loop(items, 0, x_offset, y, x_offset, items_per_row, placed)
         IN tree_level_loop_offset_from_edge(levels, order, k + 1,
                                             done.y + Mm(LEVEL_SPACING),
                                             available_width, done.positions)

(* the outer loop of _layout_tree (lines 143-167) over sorted(levels.keys()) *)
RECURSIVE tree_level_loop(_, _, _, _, _, _)
tree_level_loop(levels, order, k, y, available_width, placed) ==
    IF k > Len(order) THEN placed
    ELSE LET items == levels[order[k]]
             items_per_row == items_per_row_of(available_width)
             total_width == Len(items) * (COMPONENT_WIDTH + HORIZONTAL_SPACING)
             x_offset == HalfOf(available_width - total_width) + Mm(MARGIN_LEFT)
             done == tree_row_loop(items, 0, x_offset, y, x_offset, items_per_row, placed)
         IN tree_level_loop(levels, order, k + 1, done.y + Mm(LEVEL_SPACING),
                            available_width, done.positions)

layout_tree(components, page_width, page_height) ==
    LET levels == group_by_level(components)
        available_width == page_width - MARGIN_LEFT - MARGIN_RIGHT
    IN tree_level_loop(levels, Sorted(DOMAIN levels), 1, Mm(MARGIN_TOP),
                       available_width, EmptyDict)

(* vertical_loop stepping by the box height alone (VERTICAL_SPACING lost) *)
RECURSIVE vertical_loop_no_spacing(_, _, _, _, _)
vertical_loop_no_spacing(components, k, x, y, placed) ==
    IF k > Len(components) THEN placed
    ELSE vertical_loop_no_spacing(components, k + 1, x,
                       y + Mm(COMPONENT_HEIGHT),
                       DictSet(placed, components[k].position, <<x, y>>))

(* the loop of _layout_vertical (lines 196-198) *)
RECURSIVE vertical_loop(_, _, _, _, _)
vertical_loop(components, k, x, y, placed) ==
    IF k > Len(components) THEN placed
    ELSE vertical_loop(components, k + 1, x,
                       y + Mm(COMPONENT_HEIGHT + VERTICAL_SPACING),
                       DictSet(placed, components[k].position, <<x, y>>))

layout_vertical(components, page_width, page_height) ==
    vertical_loop(components, 1, HalfOf(page_width - COMPONENT_WIDTH),
                  Mm(MARGIN_TOP), EmptyDict)

(* the loop of _layout_horizontal (lines 229-235); the branch at 231 only logs *)
RECURSIVE horizontal_loop(_, _, _, _, _)
horizontal_loop(components, k, x, y, placed) ==
    IF k > Len(components) THEN placed
    ELSE horizontal_loop(components, k + 1,
                         x + Mm(COMPONENT_WIDTH + HORIZONTAL_SPACING), y,
                         DictSet(placed, components[k].position, <<x, y>>))

(* a horizontal layout that starts a new row where the code only logs (line 231) *)
RECURSIVE horizontal_loop_wrapping(_, _, _, _, _, _)
horizontal_loop_wrapping(components, k, x, y, page_width, placed) ==
    IF k > Len(components) THEN placed
    ELSE LET wrap == x + Mm(COMPONENT_WIDTH) > Mm(page_width - MARGIN_RIGHT)
             x1 == IF wrap THEN Mm(MARGIN_LEFT) ELSE x
             y1 == IF wrap THEN y + Mm(COMPONENT_HEIGHT + VERTICAL_SPACING) ELSE y
         IN horizontal_loop_wrapping(components, k + 1,
                         x1 + Mm(COMPONENT_WIDTH + HORIZONTAL_SPACING), y1, page_width,
                         DictSet(placed, components[k].position, <<x1, y1>>))

layout_horizontal_wrapping(components, page_width, page_height) ==
    horizontal_loop_wrapping(components, 1, Mm(MARGIN_LEFT),
                    HalfOf(page_height - COMPONENT_HEIGHT), page_width, EmptyDict)

layout_horizontal(components, page_width, page_height) ==
    horizontal_loop(components, 1, Mm(MARGIN_LEFT),
                    HalfOf(page_height - COMPONENT_HEIGHT), EmptyDict)

(* calculate_positions that gives up (returns nothing) when the row of a
   horizontal layout does not fit between the margins of the sheet *)
calculate_positions_refusing_overflow(components, layout_type, page_format, orientation) ==
    LET size == get_page_size(page_format, orientation)
        page_width == size[1]
        page_height == size[2]
        row_width == Len(components) * (COMPONENT_WIDTH + HORIZONTAL_SPACING)
                     - HORIZONTAL_SPACING
    IN CASE layout_type = "vertical" -> layout_vertical(components, page_width, page_height)
         [] layout_type = "horizontal" ->
                IF MARGIN_LEFT + row_width > page_width - MARGIN_RIGHT
                THEN EmptyDict
                ELSE layout_horizontal(components, page_width, page_height)
         [] OTHER -> layout_tree(components, page_width, page_height)

(* calculate_positions whose else branch (line 86-88) stacks the components
   in a column instead of falling back to the tree layout *)
calculate_positions_else_vertical(components, layout_type, page_format, orientation) ==
    LET size == get_page_size(page_format, orientation)
        page_width == size[1]
        page_height == size[2]
    IN CASE layout_type = "tree" -> layout_tree(components, page_width, page_height)
         [] layout_type = "horizontal" -> layout_horizontal(components, page_width, page_height)
         [] OTHER -> layout_vertical(components, page_width, page_height)

calculate_positions(components, layout_type, page_format, orientation) ==
    LET size == get_page_size(page_format, orientation)
        page_width == size[1]
        page_height == size[2]
    IN CASE layout_type = "tree" -> layout_tree(components, page_width, page_height)
         [] layout_type = "vertical" -> layout_vertical(components, page_width, page_height)
         [] layout_type = "horizontal" -> layout_horizontal(components, page_width, page_height)
         [] OTHER -> layout_tree(components, page_width, page_height)

(* the elements of seq without the repetitions of an earlier element: a dict
   keeps a key where it was first inserted, a later assignment only replaces
   the value *)
RECURSIVE FirstOccurrencesFrom(_, _)
FirstOccurrencesFrom(seq, k) ==
    IF k > Len(seq) THEN << >>
    ELSE (IF \A j \in 1..(k - 1) : seq[j] # seq[k] THEN <<seq[k]>> ELSE << >>)
         \o FirstOccurrencesFrom(seq, k + 1)

FirstOccurrences(seq) == FirstOccurrencesFrom(seq, 1)

(* the positions of the components of the levels order[k..], level by level *)
RECURSIVE level_visits(_, _, _)
level_visits(levels, order, k) ==
    IF k > Len(order) THEN << >>
    ELSE [i \in DOMAIN levels[order[k]] |-> levels[order[k]][i].position]
         \o level_visits(levels, order, k + 1)

(* insertion order of the dict calculate_positions returns: the order in which
   the chosen layout loop first assigns each position (tree: by ascending
   level, input order within a level; vertical and horizontal: input order) *)
positions_key_order(components, layout_type) ==
    IF layout_type \in {"vertical", "horizontal"}
    THEN FirstOccurrences([i \in DOMAIN components |-> components[i].position])
    ELSE LET levels == group_by_level(components)
         IN FirstOccurrences(level_visits(levels, Sorted(DOMAIN levels), 1))

(* positions.items(): the (key, value) pairs in iteration order *)
dict_items(d, order) == [i \in DOMAIN order |-> <<order[i], d[order[i]]>>]

(* one warning of validate_layout: the fixed text and the position it names *)
LayoutWarning(kind, position) == [kind |-> kind, position |-> position]

(* validate_layout_loop with the three tests chained by elif: at most one
   warning for an entry *)
RECURSIVE validate_layout_loop_elif(_, _, _, _, _)
validate_layout_loop_elif(items, k, page_width, page_height, warns) ==
    IF k > Len(items) THEN warns
    ELSE LET position == items[k][1]
             x == items[k][2][1]
             y == items[k][2][2]
             w == IF x < 0 \/ y < 0 THEN <<LayoutWarning("left_top", position)>>
                  ELSE IF x + Mm(COMPONENT_WIDTH) > Mm(page_width)
                       THEN <<LayoutWarning("right", position)>>
                       ELSE IF y + Mm(COMPONENT_HEIGHT) > Mm(page_height)
                            THEN <<LayoutWarning("bottom", position)>>
                            ELSE << >>
         IN validate_layout_loop_elif(items, k + 1, page_width, page_height, warns \o w)

(* validate_layout_loop whose right-boundary test is taken at the right
   margin (page_width - MARGIN_RIGHT), as the test of _layout_horizontal is *)
RECURSIVE validate_layout_loop_right_margin(_, _, _, _, _)
validate_layout_loop_right_margin(items, k, page_width, page_height, warns) ==
    IF k > Len(items) THEN warns
    ELSE LET position == items[k][1]
             x == items[k][2][1]
             y == items[k][2][2]
             w_left_top ==
                 IF x < 0 \/ y < 0
                 THEN <<LayoutWarning("left_top", position)>> ELSE << >>
             w_right ==
                 IF x + Mm(COMPONENT_WIDTH) > Mm(page_width - MARGIN_RIGHT)
                 THEN <<LayoutWarning("right", position)>> ELSE << >>
             w_bottom ==
                 IF y + Mm(COMPONENT_HEIGHT) > Mm(page_height)
                 THEN <<LayoutWarning("bottom", position)>> ELSE << >>
         IN validate_layout_loop_right_margin(items, k + 1, page_width, page_height,
                                 warns \o w_left_top \o w_right \o w_bottom)

(* the loop of validate_layout (lines 279-288) over items[k..] *)
RECURSIVE validate_layout_loop(_, _, _, _, _)
validate_layout_loop(items, k, page_width, page_height, warns) ==
    IF k > Len(items) THEN warns
    ELSE LET position == items[k][1]
             x == items[k][2][1]
             y == items[k][2][2]
             w_left_top ==
                 IF x < 0 \/ y < 0
                 THEN <<LayoutWarning("left_top", position)>> ELSE << >>
             w_right ==
                 IF x + Mm(COMPONENT_WIDTH) > Mm(page_width)
                 THEN <<LayoutWarning("right", position)>> ELSE << >>
             w_bottom ==
                 IF y + Mm(COMPONENT_HEIGHT) > Mm(page_height)
                 THEN <<LayoutWarning("bottom", position)>> ELSE << >>
         IN validate_layout_loop(items, k + 1, page_width, page_height,
                                 warns \o w_left_top \o w_right \o w_bottom)

(* validate_layout, lines 260-295; items is positions.items() *)
validate_layout(items, page_width, page_height) ==
    validate_layout_loop(items, 1, page_width, page_height, << >>)

----------------------------------------------------------------------------
(* GOSTValidator: class constants, gost_validator.py:31-44 *)

SUPPORTED_FORMATS == {"A0", "A1", "A2", "A3", "A4"}
SUPPORTED_ORIENTATIONS == {"portrait", "landscape"}
SUPPORTED_LAYOUT_TYPES == {"tree", "vertical", "horizontal"}

AsciiDigits == {"0", "1", "2", "3", "4", "5", "6", "7", "8", "9"}

(* \d of a str pattern matches every Unicode decimal digit; "u0663" stands
   for the single character U+0663 (ARABIC-INDIC DIGIT THREE) *)
NonAsciiDigits == {"u0663"}

IsDigit(c) == c \in AsciiDigits \cup NonAsciiDigits

(* re.match(DESIGNATION_PATTERN, s) for ^\d{4}\.\d{2}\.\d{2}\.\d{3}$ :
   anchored at the start; "$" matches at the end of the string and also just
   before a newline that ends the string *)
matches_DESIGNATION_PATTERN(s) ==
    /\ Len(s) >= 14
    /\ \A i \in {1, 2, 3, 4, 6, 7, 9, 10, 12, 13, 14} : IsDigit(s[i])
    /\ \A i \in {5, 8, 11} : s[i] = "."
    /\ \/ Len(s) = 14
       \/ Len(s) = 15 /\ s[15] = "\n"

(* One message of the error or warning list: its kind (the fixed text of the
   f-string) and the values the f-string interpolates into it *)
Msg(kind, position, numbers, text, word) ==
    [kind |-> kind, position |-> position, numbers |-> numbers,
     text |-> text, word |-> word]

(* truthiness of an Optional[str] field: None and "" are falsy;
   TruthyText is the same for a string held as a tuple of characters *)
Truthy(opt) == opt # None /\ opt[1] # ""
TruthyText(opt) == opt # None /\ opt[1] # << >>

(* a title-block check that treats a missing developer as an error *)
validate_title_block_developer_error(title_block) ==
    IF title_block = None
    THEN [errors |-> <<Msg("title_block_empty", None, << >>, << >>, "")>>,
          warnings |-> << >>]
    ELSE LET tb == title_block[1]
             e_designation ==
                 IF ~TruthyText(tb.designation)
                 THEN <<Msg("title_designation_required", None, << >>, << >>, "")>>
                 ELSE IF ~matches_DESIGNATION_PATTERN(tb.designation[1])
                      THEN <<Msg("title_designation_format", None, << >>,
                                 tb.designation[1], "")>>
                      ELSE << >>
             e_name ==
                 IF ~Truthy(tb.name)
                 THEN <<Msg("title_name_required", None, << >>, << >>, "")>>
                 ELSE << >>
             e_developer ==
                 IF ~Truthy(tb.developer)
                 THEN <<Msg("developer_recommended", None, << >>, << >>, "")>>
                 ELSE << >>
             w_organization ==
                 IF ~Truthy(tb.organization)
                 THEN <<Msg("organization_recommended", None, << >>, << >>, "")>>
                 ELSE << >>
         IN [errors |-> e_designation \o e_name \o e_developer,
             warnings |-> w_organization]

(* _validate_title_block, lines 106-141: (errors, warnings) *)
validate_title_block(title_block) ==
    IF title_block = None
    THEN [errors |-> <<Msg("title_block_empty", None, << >>, << >>, "")>>,
          warnings |-> << >>]
    ELSE LET tb == title_block[1]
             e_designation ==
                 IF ~TruthyText(tb.designation)
                 THEN <<Msg("title_designation_required", None, << >>, << >>, "")>>
                 ELSE IF ~matches_DESIGNATION_PATTERN(tb.designation[1])
                      THEN <<Msg("title_designation_format", None, << >>,
                                 tb.designation[1], "")>>
                      ELSE << >>
             e_name ==
                 IF ~Truthy(tb.name)
                 THEN <<Msg("title_name_required", None, << >>, << >>, "")>>
                 ELSE << >>
             w_developer ==
                 IF ~Truthy(tb.developer)
                 THEN <<Msg("developer_recommended", None, << >>, << >>, "")>>
                 ELSE << >>
             w_organization ==
                 IF ~Truthy(tb.organization)
                 THEN <<Msg("organization_recommended", None, << >>, << >>, "")>>
                 ELSE << >>
         IN [errors |-> e_designation \o e_name,
             warnings |-> w_developer \o w_organization]

(* a component check that stops at the first violated field (elif chain) *)
validate_single_component_first_only(component) ==
    LET p == Some(component.position)
        w_name ==
            IF component.name = ""
            THEN <<Msg("component_name_recommended", p, << >>, << >>, "")>>
            ELSE << >>
        errs ==
            IF ~matches_DESIGNATION_PATTERN(component.designation)
            THEN <<Msg("component_designation_format", p, << >>,
                       component.designation, "")>>
            ELSE IF component.quantity < 1
                 THEN <<Msg("component_quantity", p, << >>, << >>, "")>>
                 ELSE IF component.level < 0
                      THEN <<Msg("component_level_negative", p, << >>, << >>, "")>>
                      ELSE << >>
    IN [errors |-> errs, warnings |-> w_name]

(* _validate_single_component, lines 176-205: (errors, warnings) *)
validate_single_component(component) ==
    LET p == Some(component.position)
        e_designation ==
            IF ~matches_DESIGNATION_PATTERN(component.designation)
            THEN <<Msg("component_designation_format", p, << >>,
                       component.designation, "")>>
            ELSE << >>
        e_quantity ==
            IF component.quantity < 1
            THEN <<Msg("component_quantity", p, << >>, << >>, "")>>
            ELSE << >>
        e_level ==
            IF component.level < 0
            THEN <<Msg("component_level_negative", p, << >>, << >>, "")>>
            ELSE << >>
        w_name ==
            IF component.name = ""
            THEN <<Msg("component_name_recommended", p, << >>, << >>, "")>>
            ELSE << >>
    IN [errors |-> e_designation \o e_quantity \o e_level, warnings |-> w_name]

(* positions.count(p) *)
CountOf(seq, v) == Cardinality({i \in DOMAIN seq : seq[i] = v})

(* the loop of _validate_components, lines 169-172, from component k on *)
RECURSIVE components_loop(_, _, _, _)
components_loop(components, k, errs, warns) ==
    IF k > Len(components) THEN [errors |-> errs, warnings |-> warns]
    ELSE LET r == validate_single_component(components[k])
         IN components_loop(components, k + 1, errs \o r.errors, warns \o r.warnings)

(* duplicate_errors naming only the first repeated position value *)
duplicate_errors_first_only(components) ==
    LET position_list == [i \in DOMAIN components |-> components[i].position]
        position_set == {position_list[i] : i \in DOMAIN position_list}
        duplicates == SelectSeq(position_list, LAMBDA p : CountOf(position_list, p) > 1)
    IN IF Len(position_list) # Cardinality(position_set)
       THEN <<Msg("duplicate_positions", None, <<duplicates[1]>>, << >>, "")>>
       ELSE << >>

(* the duplicate check of _validate_components, lines 162-166 *)
duplicate_errors(components) ==
    LET position_list == [i \in DOMAIN components |-> components[i].position]
        position_set == {position_list[i] : i \in DOMAIN position_list}
        duplicates == SelectSeq(position_list, LAMBDA p : CountOf(position_list, p) > 1)
    IN IF Len(position_list) # Cardinality(position_set)
       THEN <<Msg("duplicate_positions", None, duplicates, << >>, "")>>
       ELSE << >>

(* _validate_components, lines 143-174: (errors, warnings) *)
validate_components(components) ==
    IF components = << >>
    THEN [errors |-> <<Msg("components_empty", None, << >>, << >>, "")>>,
          warnings |-> << >>]
    ELSE components_loop(components, 1, duplicate_errors(components), << >>)

(* _validate_format, lines 207-224 *)
validate_format(gost_format) ==
    IF gost_format \notin SUPPORTED_FORMATS
    THEN <<Msg("unsupported_format", None, << >>, << >>, gost_format)>>
    ELSE << >>

(* _validate_orientation, lines 226-243 *)
validate_orientation(orientation) ==
    IF orientation \notin SUPPORTED_ORIENTATIONS
    THEN <<Msg("unsupported_orientation", None, << >>, << >>, orientation)>>
    ELSE << >>

(* _validate_layout_type, lines 245-262 *)
validate_layout_type(layout_type) ==
    IF layout_type \notin SUPPORTED_LAYOUT_TYPES
    THEN <<Msg("unsupported_layout_type", None, << >>, << >>, layout_type)>>
    ELSE << >>

(* next((c for c in components if c.position == p), None), line 288 *)
find_parent(components, p) ==
    LET hits == {i \in DOMAIN components : components[i].position = p}
    IN IF hits = {} THEN None
       ELSE Some(components[CHOOSE i \in hits : \A j \in hits : i <= j])

(* parent_errors comparing with ">" where the code has ">=" (line 289) *)
parent_errors_strict(components, component) ==
    IF component.parent_position = None THEN << >>
    ELSE LET pp == component.parent_position[1]
             valid_positions == {components[i].position : i \in DOMAIN components}
             parent == find_parent(components, pp)
             e_missing ==
                 IF pp \notin valid_positions
                 THEN <<Msg("parent_missing", Some(component.position), <<pp>>, << >>, "")>>
                 ELSE << >>
             e_level ==
                 IF parent # None /\ parent[1].level > component.level
                 THEN <<Msg("parent_level", Some(component.position), << >>, << >>, "")>>
                 ELSE << >>
         IN e_missing \o e_level

(* the body of the loop of _validate_hierarchy, lines 283-290, for one component *)
parent_errors(components, component) ==
    IF component.parent_position = None THEN << >>
    ELSE LET pp == component.parent_position[1]
             valid_positions == {components[i].position : i \in DOMAIN components}
             parent == find_parent(components, pp)
             e_missing ==
                 IF pp \notin valid_positions
                 THEN <<Msg("parent_missing", Some(component.position), <<pp>>, << >>, "")>>
                 ELSE << >>
             e_level ==
                 IF parent # None /\ parent[1].level >= component.level
                 THEN <<Msg("parent_level", Some(component.position), << >>, << >>, "")>>
                 ELSE << >>
         IN e_missing \o e_level

(* a hierarchy loop that only looks for parents that do not exist (the level
   test of lines 287-290 lost) *)
RECURSIVE hierarchy_loop_missing_only(_, _, _)
hierarchy_loop_missing_only(components, k, errs) ==
    IF k > Len(components) THEN errs
    ELSE hierarchy_loop_missing_only(components, k + 1,
            errs \o SelectSeq(parent_errors(components, components[k]),
                              LAMBDA e : e.kind = "parent_missing"))

(* the loop of _validate_hierarchy, lines 282-290, from component k on *)
RECURSIVE hierarchy_loop(_, _, _)
hierarchy_loop(components, k, errs) ==
    IF k > Len(components) THEN errs
    ELSE hierarchy_loop(components, k + 1,
                        errs \o parent_errors(components, components[k]))

(* main_count_errors that only notices a missing main product *)
main_count_errors_only_missing(components) ==
    LET main_components == SelectSeq(components, LAMBDA c : c.level = 0)
    IN IF Len(main_components) < 1
       THEN <<Msg("main_count", None, <<Len(main_components)>>, << >>, "")>>
       ELSE << >>

(* the main-product check of _validate_hierarchy, lines 292-295 *)
main_count_errors(components) ==
    LET main_components == SelectSeq(components, LAMBDA c : c.level = 0)
    IN IF Len(main_components) # 1
       THEN <<Msg("main_count", None, <<Len(main_components)>>, << >>, "")>>
       ELSE << >>

(* a hierarchy check that has nothing to say about an empty list *)
validate_hierarchy_skipping_empty(components) ==
    IF components = << >> THEN << >>
    ELSE hierarchy_loop(components, 1, << >>) \o main_count_errors(components)

(* _validate_hierarchy, lines 264-297 *)
validate_hierarchy(components) ==
    hierarchy_loop(components, 1, << >>) \o main_count_errors(components)

(* validate_request whose validity also requires an empty warning list *)
validate_request_warnings_block(req) ==
    LET title == validate_title_block(req.title_block_data)
        comp == validate_components(req.components)
        errs == title.errors
                \o comp.errors
                \o validate_format(req.gost_format)
                \o validate_orientation(req.orientation)
                \o validate_layout_type(req.layout_type)
                \o validate_hierarchy(req.components)
        warns == title.warnings \o comp.warnings
    IN [is_valid |-> Len(errs) = 0 /\ Len(warns) = 0, errors |-> errs, warnings |-> warns]

(* validate_request that returns as soon as the title block has an error *)
validate_request_stop_at_first(req) ==
    LET title == validate_title_block(req.title_block_data)
        comp == validate_components(req.components)
        errs == title.errors
                \o comp.errors
                \o validate_format(req.gost_format)
                \o validate_orientation(req.orientation)
                \o validate_layout_type(req.layout_type)
                \o validate_hierarchy(req.components)
        warns == title.warnings \o comp.warnings
    IN IF title.errors # << >>
       THEN [is_valid |-> FALSE, errors |-> title.errors, warnings |-> title.warnings]
       ELSE [is_valid |-> Len(errs) = 0, errors |-> errs, warnings |-> warns]

(* validate_request that checks the orientation only when the page format is
   supported, and the layout type only when both are (a chain of elif) *)
validate_request_config_chain(req) ==
    LET title == validate_title_block(req.title_block_data)
        comp == validate_components(req.components)
        e_format == validate_format(req.gost_format)
        e_orientation == IF e_format = << >>
                         THEN validate_orientation(req.orientation) ELSE << >>
        e_layout == IF e_format = << >> /\ e_orientation = << >>
                    THEN validate_layout_type(req.layout_type) ELSE << >>
        errs == title.errors \o comp.errors \o e_format \o e_orientation \o e_layout
                \o validate_hierarchy(req.components)
        warns == title.warnings \o comp.warnings
    IN [is_valid |-> Len(errs) = 0, errors |-> errs, warnings |-> warns]

(* validate_request, lines 50-104: (is_valid, errors, warnings) *)
validate_request(req) ==
    LET title == validate_title_block(req.title_block_data)
        comp == validate_components(req.components)
        errs == title.errors
                \o comp.errors
                \o validate_format(req.gost_format)
                \o validate_orientation(req.orientation)
                \o validate_layout_type(req.layout_type)
                \o validate_hierarchy(req.components)
        warns == title.warnings \o comp.warnings
    IN [is_valid |-> Len(errs) = 0, errors |-> errs, warnings |-> warns]

----------------------------------------------------------------------------
(* Inputs *)

GoodDesignation == <<"1","2","3","4",".","0","1",".","0","0",".","0","0","0">>

CleanTitleBlock ==
    Some([designation |-> Some(GoodDesignation), name |-> Some("Scheme"),
          developer |-> Some("Dev"), organization |-> Some("Org")])

(* a component that differs from a clean one only in what placement reads *)
LayoutComponent(p, l) ==
    [position |-> p, name |-> "Part", designation |-> GoodDesignation,
     quantity |-> 1, level |-> l, parent_position |-> None]

RECURSIVE SeqsUpTo(_, _)
SeqsUpTo(S, n) ==
    IF n = 0 THEN {<< >>}
    ELSE LET shorter == SeqsUpTo(S, n - 1)
         IN shorter \cup {Append(s, e) : s \in {t \in shorter : Len(t) = n - 1}, e \in S}

LayoutComponents ==
    {LayoutComponent(p, l) : p \in 1..MaxLayoutComponents, l \in 0..MaxLayoutLevel}

LayoutRequests ==
    [components : SeqsUpTo(LayoutComponents, MaxLayoutComponents) \ {<< >>},
     title_block_data : {CleanTitleBlock},
     gost_format : DOMAIN PAGE_SIZES,
     orientation : {"portrait", "landscape"},
     layout_type : {"tree", "vertical", "horizontal"}]

BadDesignation == <<"1","2",".","3",".","4",".","5">>

Designations == {GoodDesignation, BadDesignation}

(* title blocks: absent, or every combination of present / empty / absent fields *)
TitleBlocks ==
    {None} \cup
    {Some(tb) : tb \in
        [designation : {None, Some(<< >>), Some(BadDesignation), Some(GoodDesignation)},
         name : {None, Some(""), Some("Scheme")},
         developer : {None, Some("Dev")},
         organization : {None, Some("Org")}]}

FormatValues == SUPPORTED_FORMATS \cup {"A5"}
OrientationValues == SUPPORTED_ORIENTATIONS \cup {"diagonal"}
LayoutTypeValues == SUPPORTED_LAYOUT_TYPES \cup {"circular"}

Component(p, n, d, q, l, pp) ==
    [position |-> p, name |-> n, designation |-> d,
     quantity |-> q, level |-> l, parent_position |-> pp]

(* Hierarchy requests: positions, levels and parent links vary freely (also
   duplicated positions and links to a position no component has) *)
HierarchyComponents ==
    {Component(p, "Part", GoodDesignation, 1, l, pp) :
        p \in 1..MaxComponents, l \in 0..MaxLevel,
        pp \in {None} \cup {Some(q) : q \in 1..(MaxComponents + 1)}}

HierarchyRequests ==
    [components : SeqsUpTo(HierarchyComponents, MaxComponents),
     title_block_data : {CleanTitleBlock},
     gost_format : {"A3"}, orientation : {"landscape"}, layout_type : {"tree"}]
    \cup
    [components : SeqsUpTo(HierarchyComponents, MaxComponents),
     title_block_data : {None},
     gost_format : {"A5"}, orientation : {"diagonal"}, layout_type : {"circular"}]

(* Field requests: component k has position k; the per-component fields and
   the title block vary freely *)
FieldComponentsAt(k) ==
    {Component(k, n, d, q, l, IF k = 1 \/ l < 1 THEN None ELSE Some(1)) :
        n \in {"", "Part"}, d \in Designations, q \in {0, 1},
        l \in {0 - 1, IF k = 1 THEN 0 ELSE 1}}

FieldComponentLists ==
    UNION {{s \in [1..n -> UNION {FieldComponentsAt(k) : k \in 1..n}] :
               \A k \in 1..n : s[k] \in FieldComponentsAt(k)} :
           n \in 0..MaxFieldComponents}

FieldRequests ==
    [components : FieldComponentLists,
     title_block_data : TitleBlocks,
     gost_format : {"A3"}, orientation : {"landscape"}, layout_type : {"tree"}]

(* Configuration requests: the title block and the three enumerated values
   vary freely over an empty list and a single main product *)
ConfigRequests ==
    [components : {<< >>, <<Component(1, "Part", GoodDesignation, 1, 0, None)>>},
     title_block_data : TitleBlocks,
     gost_format : FormatValues,
     orientation : OrientationValues,
     layout_type : LayoutTypeValues]

(* Repeated-position requests: longer lists over few position values, so that
   several position values can each occur more than once *)
RepeatedComponents ==
    {Component(p, "Part", GoodDesignation, 1, IF p = 1 THEN 0 ELSE 1, None) :
        p \in 1..MaxRepeatedPositions}

RepeatedRequests ==
    [components : SeqsUpTo(RepeatedComponents, MaxRepeatedLength),
     title_block_data : {CleanTitleBlock},
     gost_format : {"A3"}, orientation : {"landscape"}, layout_type : {"tree"}]

ValidationRequests ==
    HierarchyRequests \cup FieldRequests \cup ConfigRequests \cup RepeatedRequests

----------------------------------------------------------------------------
(* Specification of the layout engine: one request, one calculate_positions call *)

InitLayout ==
    /\ request \in LayoutRequests
    /\ pc = "start"
    /\ is_valid = FALSE
    /\ errors = << >>
    /\ warnings = << >>
    /\ positions = EmptyDict
    /\ key_order = << >>
    /\ layout_warnings = << >>

CalculatePositions ==
    /\ pc = "start"
    /\ positions' = calculate_positions(request.components, request.layout_type,
                                        request.gost_format, request.orientation)
    /\ key_order' = positions_key_order(request.components, request.layout_type)
    /\ pc' = "placed"
    /\ UNCHANGED <<request, is_valid, errors, warnings, layout_warnings>>

NextLayout == CalculatePositions

SpecLayout == InitLayout /\ [][NextLayout]_vars

----------------------------------------------------------------------------
(* Specification of the layout engine on configuration values outside the
   enumerations: one request, one calculate_positions call *)

UnknownLayoutTypes == {"circular", "", "TREE"}

FallbackComponents ==
    {LayoutComponent(p, l) : p \in 1..MaxFallbackComponents, l \in 0..MaxFallbackLevel}

FallbackRequests ==
    [components : SeqsUpTo(FallbackComponents, MaxFallbackComponents) \ {<< >>},
     title_block_data : {CleanTitleBlock},
     gost_format : FormatValues,
     orientation : OrientationValues,
     layout_type : SUPPORTED_LAYOUT_TYPES \cup UnknownLayoutTypes]

InitFallback ==
    /\ request \in FallbackRequests
    /\ pc = "start"
    /\ is_valid = FALSE
    /\ errors = << >>
    /\ warnings = << >>
    /\ positions = EmptyDict
    /\ key_order = << >>
    /\ layout_warnings = << >>

SpecFallback == InitFallback /\ [][NextLayout]_vars

----------------------------------------------------------------------------
(* Specification of the tree layout: one request with layout_type 'tree',
   one calculate_positions call *)

TreeComponents ==
    {LayoutComponent(p, l) : p \in 1..MaxTreeComponents, l \in 0..MaxTreeLevel}

TreeRequests ==
    [components : SeqsUpTo(TreeComponents, MaxTreeComponents) \ {<< >>},
     title_block_data : {CleanTitleBlock},
     gost_format : DOMAIN PAGE_SIZES,
     orientation : {"portrait", "landscape"},
     layout_type : {"tree"}]

InitTree ==
    /\ request \in TreeRequests
    /\ pc = "start"
    /\ is_valid = FALSE
    /\ errors = << >>
    /\ warnings = << >>
    /\ positions = EmptyDict
    /\ key_order = << >>
    /\ layout_warnings = << >>

SpecTree == InitTree /\ [][NextLayout]_vars

----------------------------------------------------------------------------
(* Specification of the validator: one request, one validate_request call *)

InitValidate ==
    /\ request \in ValidationRequests
    /\ pc = "start"
    /\ is_valid = FALSE
    /\ errors = << >>
    /\ warnings = << >>
    /\ positions = EmptyDict
    /\ key_order = << >>
    /\ layout_warnings = << >>

ValidateRequest ==
    /\ pc = "start"
    /\ LET r == validate_request(request)
       IN /\ is_valid' = r.is_valid
          /\ errors' = r.errors
          /\ warnings' = r.warnings
    /\ pc' = "validated"
    /\ UNCHANGED <<request, positions, key_order, layout_warnings>>

NextValidate == ValidateRequest

SpecValidate == InitValidate /\ [][NextValidate]_vars

----------------------------------------------------------------------------
(* Specification of one scheme: the request is validated, a valid request is
   placed (kompas_api_handler.py 380-404), and the returned map is handed to
   validate_layout with the width and height of the same page *)

SchemeComponentsAt(k) ==
    {Component(k, "Part", GoodDesignation, 1, l, pp) :
        l \in 0..MaxSchemeLevel, pp \in {None, Some(1)}}

SchemeComponentLists ==
    UNION {{s \in [1..n -> UNION {SchemeComponentsAt(k) : k \in 1..n}] :
               \A k \in 1..n : s[k] \in SchemeComponentsAt(k)} :
           n \in 1..MaxSchemeComponents}

SchemeRequests ==
    [components : SchemeComponentLists,
     title_block_data : {CleanTitleBlock},
     gost_format : SUPPORTED_FORMATS,
     orientation : SUPPORTED_ORIENTATIONS,
     layout_type : SUPPORTED_LAYOUT_TYPES]

InitScheme ==
    /\ request \in SchemeRequests
    /\ pc = "start"
    /\ is_valid = FALSE
    /\ errors = << >>
    /\ warnings = << >>
    /\ positions = EmptyDict
    /\ key_order = << >>
    /\ layout_warnings = << >>

(* the handler goes on to calculate_positions only when is_valid *)
PlaceValidated ==
    /\ pc = "validated"
    /\ is_valid
    /\ positions' = calculate_positions(request.components, request.layout_type,
                                        request.gost_format, request.orientation)
    /\ key_order' = positions_key_order(request.components, request.layout_type)
    /\ pc' = "placed"
    /\ UNCHANGED <<request, is_valid, errors, warnings, layout_warnings>>

(* a boundary check that also moves every box back between the left and the
   right edge of the sheet (writes to the dict it was given) *)
ValidateLayout_clamping ==
    /\ pc = "placed"
    /\ LET size == get_page_size(request.gost_format, request.orientation)
       IN /\ layout_warnings' = validate_layout(dict_items(positions, key_order),
                                                size[1], size[2])
          /\ positions' = [p \in DOMAIN positions |->
                             <<Max(0, Min(positions[p][1], Mm(size[1] - COMPONENT_WIDTH))),
                               positions[p][2]>>]
    /\ pc' = "checked"
    /\ UNCHANGED <<request, is_valid, errors, warnings, key_order>>

ValidateLayout ==
    /\ pc = "placed"
    /\ LET size == get_page_size(request.gost_format, request.orientation)
       IN layout_warnings' = validate_layout(dict_items(positions, key_order),
                                             size[1], size[2])
    /\ pc' = "checked"
    /\ UNCHANGED <<request, is_valid, errors, warnings, positions, key_order>>

NextScheme == ValidateRequest \/ PlaceValidated \/ ValidateLayout

SpecScheme == InitScheme /\ [][NextScheme]_vars

----------------------------------------------------------------------------
(* Specification of the boundary check alone: validate_layout is called on
   any map, with coordinates on both sides of every edge of the sheet *)

(* x values around the left and the right edge of a sheet of width page_width:
   5 mm outside, on the edge, the last x at which a box fits, 0.5 mm beyond *)
BoundaryXs(page_width) ==
    {Mm(0 - 5), 0, Mm(page_width - COMPONENT_WIDTH), Mm(page_width - COMPONENT_WIDTH) + 1}

BoundaryYs(page_height) ==
    {Mm(0 - 5), 0, Mm(page_height - COMPONENT_HEIGHT),
     Mm(page_height - COMPONENT_HEIGHT) + 1}

BoundaryDicts(page_width, page_height) ==
    UNION {[K -> BoundaryXs(page_width) \X BoundaryYs(page_height)] :
              K \in SUBSET (1..MaxBoundaryKeys)}

(* every order in which the keys K can have been inserted *)
Orderings(K) ==
    {o \in [1..Cardinality(K) -> K] : \A i, j \in DOMAIN o : i # j => o[i] # o[j]}

BoundaryRequests ==
    [components : {<< >>},
     title_block_data : {CleanTitleBlock},
     gost_format : {"A3", "A4"},
     orientation : SUPPORTED_ORIENTATIONS,
     layout_type : {"tree"}]

InitBoundary ==
    /\ request \in BoundaryRequests
    /\ pc = "placed"
    /\ is_valid = FALSE
    /\ errors = << >>
    /\ warnings = << >>
    /\ LET size == get_page_size(request.gost_format, request.orientation)
       IN positions \in BoundaryDicts(size[1], size[2])
    /\ key_order \in Orderings(DOMAIN positions)
    /\ layout_warnings = << >>

NextBoundary == ValidateLayout

SpecBoundary == InitBoundary /\ [][NextBoundary]_vars

----------------------------------------------------------------------------
(* Specification of the designation format: one main product and a title
   block, each with a designation drawn from strings that match the pattern,
   miss it, or surround a matching string with other characters *)

(* "1234.01.00.000" followed by one newline *)
NewlineDesignation ==
    <<"1","2","3","4",".","0","1",".","0","0",".","0","0","0","\n">>

(* ... followed by two newlines *)
TwoNewlinesDesignation ==
    <<"1","2","3","4",".","0","1",".","0","0",".","0","0","0","\n","\n">>

(* a space, then "1234.01.00.000" *)
LeadingSpaceDesignation ==
    <<" ","1","2","3","4",".","0","1",".","0","0",".","0","0","0">>

(* "1234.01.00.000x" *)
TrailingLetterDesignation ==
    <<"1","2","3","4",".","0","1",".","0","0",".","0","0","0","x">>

(* U+0663 in place of the first digit *)
ArabicDigitDesignation ==
    <<"u0663","2","3","4",".","0","1",".","0","0",".","0","0","0">>

(* "1234.01.00.00" *)
ShortDesignation ==
    <<"1","2","3","4",".","0","1",".","0","0",".","0","0">>

(* "12a4.01.00.000" *)
LetterDesignation ==
    <<"1","2","a","4",".","0","1",".","0","0",".","0","0","0">>

(* "1234-01.00.000" *)
DashDesignation ==
    <<"1","2","3","4","-","0","1",".","0","0",".","0","0","0">>

DesignationSamples ==
    {GoodDesignation, BadDesignation, NewlineDesignation, TwoNewlinesDesignation,
     LeadingSpaceDesignation, TrailingLetterDesignation, ArabicDigitDesignation,
     ShortDesignation, LetterDesignation, DashDesignation}

DesignationRequests ==
    [components : {<<Component(1, "Part", d, 1, 0, None)>> : d \in DesignationSamples},
     title_block_data :
        {Some([designation |-> Some(d), name |-> Some("Scheme"),
               developer |-> Some("Dev"), organization |-> Some("Org")]) :
            d \in DesignationSamples},
     gost_format : {"A3"}, orientation : {"landscape"}, layout_type : {"tree"}]

InitDesignation ==
    /\ request \in DesignationRequests
    /\ pc = "start"
    /\ is_valid = FALSE
    /\ errors = << >>
    /\ warnings = << >>
    /\ positions = EmptyDict
    /\ key_order = << >>
    /\ layout_warnings = << >>

SpecDesignation == InitDesignation /\ [][NextValidate]_vars

----------------------------------------------------------------------------
(* Specification of the handlers: create_division_scheme of
   kompas_api_handler.py, kompas_api_handler_v2.py and
   kompas_api_handler_fixed.py, each from the call of the validator to the
   call of the layout engine or the failure result; pc tells which handler
   ran and how it ended *)

(* bool(t) of a tuple: a tuple is falsy only when it is empty *)
TupleTruthy(t) == Len(t) > 0

(* kompas_api_handler.py 380-404: the tuple is unpacked, "if not is_valid"
   returns the failure result, otherwise calculate_positions is called *)
HandleRequest ==
    /\ pc = "start"
    /\ LET r == validate_request(request)
       IN /\ is_valid' = r.is_valid
          /\ errors' = r.errors
          /\ warnings' = r.warnings
          /\ IF ~r.is_valid
             THEN /\ pc' = "v1_failed"
                  /\ UNCHANGED <<positions, key_order>>
             ELSE /\ pc' = "v1_placed"
                  /\ positions' = calculate_positions(request.components,
                                        request.layout_type, request.gost_format,
                                        request.orientation)
                  /\ key_order' = positions_key_order(request.components,
                                                      request.layout_type)
    /\ UNCHANGED <<request, layout_warnings>>

(* kompas_api_handler_v2.py 172-207: the whole returned tuple is bound to
   validation_errors and tested with "if validation_errors"; past that test
   calculate_positions is called without the orientation (default
   "landscape") *)
HandleRequestV2 ==
    /\ pc = "start"
    /\ LET r == validate_request(request)
           validation_errors == <<r.is_valid, r.errors, r.warnings>>
       IN /\ is_valid' = r.is_valid
          /\ errors' = r.errors
          /\ warnings' = r.warnings
          /\ IF TupleTruthy(validation_errors)
             THEN /\ pc' = "v2_failed"
                  /\ UNCHANGED <<positions, key_order>>
             ELSE /\ pc' = "v2_placed"
                  /\ positions' = calculate_positions(request.components,
                                        request.layout_type, request.gost_format,
                                        "landscape")
                  /\ key_order' = positions_key_order(request.components,
                                                      request.layout_type)
    /\ UNCHANGED <<request, layout_warnings>>

(* kompas_api_handler_fixed.py 153-188: the same statements as v2 *)
HandleRequestFixed ==
    /\ pc = "start"
    /\ LET r == validate_request(request)
           validation_errors == <<r.is_valid, r.errors, r.warnings>>
       IN /\ is_valid' = r.is_valid
          /\ errors' = r.errors
          /\ warnings' = r.warnings
          /\ IF TupleTruthy(validation_errors)
             THEN /\ pc' = "fixed_failed"
                  /\ UNCHANGED <<positions, key_order>>
             ELSE /\ pc' = "fixed_placed"
                  /\ positions' = calculate_positions(request.components,
                                        request.layout_type, request.gost_format,
                                        "landscape")
                  /\ key_order' = positions_key_order(request.components,
                                                      request.layout_type)
    /\ UNCHANGED <<request, layout_warnings>>

NextHandlers == HandleRequest \/ HandleRequestV2 \/ HandleRequestFixed

SpecHandlers == InitScheme /\ [][NextHandlers]_vars

----------------------------------------------------------------------------
(* Vocabulary of the properties *)

PositionSet(components) == {components[i].position : i \in DOMAIN components}

DistinctPositions(components) ==
    \A i, j \in DOMAIN components : i # j => components[i].position # components[j].position

PageWidth == get_page_size(request.gost_format, request.orientation)[1]
PageHeight == get_page_size(request.gost_format, request.orientation)[2]

(* coordinates the returned map gives to the i-th input component *)
XOf(i) == positions[request.components[i].position][1]
YOf(i) == positions[request.components[i].position][2]

LevelCount(l) ==
    Cardinality({i \in DOMAIN request.components : request.components[i].level = l})

ItemsPerRow ==
    Max(1, (PageWidth - MARGIN_LEFT - MARGIN_RIGHT) \div (COMPONENT_WIDTH + HORIZONTAL_SPACING))

Placed(layout) == pc = "placed" /\ request.layout_type = layout

----------------------------------------------------------------------------
(* Layout engine properties *)

(* C1: for a non-empty component list with distinct positions, whatever the
   layout type, page format and orientation, the key set of the returned map
   is exactly the set of the components' position values *)
Thm_C1_KeysArePositions ==
    (pc = "placed" /\ request.components # << >>
        /\ DistinctPositions(request.components))
    => DOMAIN positions = PositionSet(request.components)

(* C1 witness: three distinct components of one level on A4 portrait, where
   the tree layout wraps after every component, have all been placed *)
Wit_C1_WrappedLevelPlaced ==
    /\ Placed("tree")
    /\ request.gost_format = "A4" /\ request.orientation = "portrait"
    /\ Len(request.components) >= 3
    /\ DistinctPositions(request.components)
    /\ \A i \in DOMAIN request.components : request.components[i].level = 0
    /\ Cardinality(DOMAIN positions) = Len(request.components)

(* the two statements of C4 about the y of the input components *)
YFollowsLevel ==
    /\ \A i, j \in DOMAIN request.components :
          request.components[i].level < request.components[j].level
          => YOf(i) < YOf(j)
    /\ \A i, j \in DOMAIN request.components :
          (/\ request.components[i].level = request.components[j].level
           /\ LevelCount(request.components[i].level) <= ItemsPerRow)
          => YOf(i) = YOf(j)

(* C4 as stated: in tree layout y grows strictly with the level and a level
   that does not wrap shares one y, for any two components of any list *)
Orig_C4_YFollowsLevelAnyList ==
    Placed("tree") => YFollowsLevel

(* the example of C4: 1 root (position 1) and 2 children (positions 2, 3) on
   A4 landscape *)
RootAndTwoChildren ==
    /\ Placed("tree")
    /\ request.gost_format = "A4" /\ request.orientation = "landscape"
    /\ Len(request.components) = 3
    /\ \A i \in 1..3 : request.components[i].position = i
    /\ request.components[1].level = 0
    /\ request.components[2].level = 1
    /\ request.components[3].level = 1

(* C4 amended: for a component list with distinct positions, in tree layout
   y grows strictly with the level, and a level that does not wrap shares one
   y; for 1 root and 2 children on A4 landscape positions 2 and 3 share y and
   the y of position 1 is strictly smaller *)
Thm_C4_YFollowsLevel ==
    /\ (Placed("tree") /\ DistinctPositions(request.components)) => YFollowsLevel
    /\ RootAndTwoChildren =>
          /\ positions[2][2] = positions[3][2]
          /\ positions[1][2] < positions[2][2]

(* C4 witness: the root and its two children are placed, root on the first
   row (y = 40 mm), both children on the second one (y = 120 mm) *)
Wit_C4_RootAboveChildren ==
    /\ RootAndTwoChildren
    /\ positions[1][2] = Mm(40)
    /\ positions[2][2] = Mm(120) /\ positions[3][2] = Mm(120)

(* C5: in vertical layout with distinct positions every component has
   x = (pageWidth - boxWidth)/2, the first input component has y = topMargin
   and each next one is boxHeight + verticalSpacing = 60 mm lower, whatever
   the levels *)
Thm_C5_VerticalColumn ==
    /\ COMPONENT_HEIGHT + VERTICAL_SPACING = 60
    /\ (Placed("vertical") /\ DistinctPositions(request.components))
       => \A i \in DOMAIN request.components :
             /\ XOf(i) = HalfOf(PageWidth - COMPONENT_WIDTH)
             /\ i = 1 => YOf(i) = Mm(MARGIN_TOP)
             /\ i > 1 => YOf(i) = YOf(i - 1) + Mm(60)

(* C5 witness: a column of three components whose levels are not in input
   order (deeper one first) has been placed *)
Wit_C5_ColumnOfMixedLevels ==
    /\ Placed("vertical")
    /\ Len(request.components) >= 3
    /\ DistinctPositions(request.components)
    /\ request.components[1].level > request.components[2].level
    /\ request.components[2].level < request.components[3].level
    /\ YOf(3) = Mm(MARGIN_TOP) + Mm(120)

(* C6: in horizontal layout with distinct positions every component has
   y = (pageHeight - boxHeight)/2, the first input component has
   x = leftMargin and each next one is boxWidth + hSpacing = 80 mm further
   right; the row never wraps, also past the right margin or the page edge *)
Thm_C6_HorizontalRow ==
    /\ COMPONENT_WIDTH + HORIZONTAL_SPACING = 80
    /\ (Placed("horizontal") /\ DistinctPositions(request.components))
       => \A i \in DOMAIN request.components :
             /\ YOf(i) = HalfOf(PageHeight - COMPONENT_HEIGHT)
             /\ i = 1 => XOf(i) = Mm(MARGIN_LEFT)
             /\ i > 1 => XOf(i) = XOf(i - 1) + Mm(80)

(* C6 witness: a row whose last box ends beyond the page edge has been
   placed, one component already beyond the right margin before it *)
Wit_C6_RowPastPageEdge ==
    /\ Placed("horizontal")
    /\ DistinctPositions(request.components)
    /\ Len(request.components) >= 3
    /\ XOf(2) + Mm(COMPONENT_WIDTH) > Mm(PageWidth - MARGIN_RIGHT)
    /\ XOf(3) + Mm(COMPONENT_WIDTH) > Mm(PageWidth)
    /\ YOf(3) = YOf(1)

----------------------------------------------------------------------------
(* Validator properties *)

Validated == pc = "validated"

ErrorsOfKind(kind) == {i \in DOMAIN errors : errors[i].kind = kind}

ErrorsAbout(kind, p) ==
    {i \in DOMAIN errors : errors[i].kind = kind /\ errors[i].position = Some(p)}

ComponentsWhere(P(_)) == {i \in DOMAIN request.components : P(request.components[i])}

Indicator(b) == IF b THEN 1 ELSE 0

(* C2: is_valid is true exactly when the returned error list is empty; the
   warning list has no part in it *)
Thm_C2_ValidIffNoErrors ==
    Validated => (is_valid <=> errors = << >>)

(* C2 witness: a validated request with warnings and no errors is valid *)
Wit_C2_ValidWithWarnings ==
    Validated /\ errors = << >> /\ Len(warnings) >= 2 /\ is_valid

(* The violations present in a request, stated per kind of error without
   reference to the order of the checks; the parent of a component is the
   first component of the list that has the position it names *)
ParentIndex(pp) ==
    CHOOSE i \in DOMAIN request.components :
        /\ request.components[i].position = pp
        /\ \A j \in DOMAIN request.components :
              request.components[j].position = pp => i <= j

HasMissingParent(c) ==
    c.parent_position # None /\ c.parent_position[1] \notin PositionSet(request.components)

HasParentNotAbove(c) ==
    /\ c.parent_position # None
    /\ c.parent_position[1] \in PositionSet(request.components)
    /\ request.components[ParentIndex(c.parent_position[1])].level >= c.level

HasParentAbove(c) ==
    /\ c.parent_position # None
    /\ c.parent_position[1] \in PositionSet(request.components)
    /\ request.components[ParentIndex(c.parent_position[1])].level < c.level

Violations(kind) ==
    LET tb == request.title_block_data
        comps == request.components
    IN CASE kind = "title_block_empty" -> Indicator(tb = None)
         [] kind = "title_designation_required" ->
                Indicator(tb # None /\ ~TruthyText(tb[1].designation))
         [] kind = "title_designation_format" ->
                Indicator(tb # None /\ TruthyText(tb[1].designation)
                          /\ ~matches_DESIGNATION_PATTERN(tb[1].designation[1]))
         [] kind = "title_name_required" -> Indicator(tb # None /\ ~Truthy(tb[1].name))
         [] kind = "components_empty" -> Indicator(comps = << >>)
         [] kind = "duplicate_positions" -> Indicator(~DistinctPositions(comps))
         [] kind = "component_designation_format" ->
                Cardinality(ComponentsWhere(
                    LAMBDA c : ~matches_DESIGNATION_PATTERN(c.designation)))
         [] kind = "component_quantity" ->
                Cardinality(ComponentsWhere(LAMBDA c : c.quantity < 1))
         [] kind = "component_level_negative" ->
                Cardinality(ComponentsWhere(LAMBDA c : c.level < 0))
         [] kind = "unsupported_format" ->
                Indicator(request.gost_format \notin SUPPORTED_FORMATS)
         [] kind = "unsupported_orientation" ->
                Indicator(request.orientation \notin SUPPORTED_ORIENTATIONS)
         [] kind = "unsupported_layout_type" ->
                Indicator(request.layout_type \notin SUPPORTED_LAYOUT_TYPES)
         [] kind = "parent_missing" -> Cardinality(ComponentsWhere(HasMissingParent))
         [] kind = "parent_level" -> Cardinality(ComponentsWhere(HasParentNotAbove))
         [] kind = "main_count" ->
                Indicator(Cardinality(ComponentsWhere(LAMBDA c : c.level = 0)) # 1)

ErrorKinds ==
    {"title_block_empty", "title_designation_required", "title_designation_format",
     "title_name_required", "components_empty", "duplicate_positions",
     "component_designation_format", "component_quantity", "component_level_negative",
     "unsupported_format", "unsupported_orientation", "unsupported_layout_type",
     "parent_missing", "parent_level", "main_count"}

(* C3: validate_request never stops at the first error: whatever the earlier
   checks found, the error list holds one entry for every violation present
   in the request, of every kind (title block, components, page format,
   orientation, layout type, hierarchy), and nothing else *)
Thm_C3_EveryViolationReported ==
    Validated =>
        /\ \A i \in DOMAIN errors : errors[i].kind \in ErrorKinds
        /\ \A kind \in ErrorKinds : Cardinality(ErrorsOfKind(kind)) = Violations(kind)

(* C3 witness: a request without title block still gets its component,
   enumeration and hierarchy errors in the same report *)
Wit_C3_MissingTitleBlockSuppressesNothing ==
    /\ Validated
    /\ request.title_block_data = None
    /\ ErrorsOfKind("title_block_empty") # {}
    /\ ErrorsOfKind("duplicate_positions") # {}
    /\ ErrorsOfKind("unsupported_format") # {}
    /\ ErrorsOfKind("unsupported_orientation") # {}
    /\ ErrorsOfKind("unsupported_layout_type") # {}
    /\ ErrorsOfKind("parent_missing") # {}
    /\ ErrorsOfKind("parent_level") # {}
    /\ ErrorsOfKind("main_count") # {}

(* position values that occur in more than one component *)
RepeatedPositions ==
    {p \in PositionSet(request.components) :
        Cardinality(ComponentsWhere(LAMBDA c : c.position = p)) > 1}

(* C8: when some position value occurs in more than one component there is
   exactly one duplicate-position error and it names every repeated value
   (and no other); when all positions are distinct there is none *)
Thm_C8_OneDuplicateError ==
    Validated =>
        /\ RepeatedPositions # {} =>
              /\ Cardinality(ErrorsOfKind("duplicate_positions")) = 1
              /\ \A i \in ErrorsOfKind("duplicate_positions") :
                    {errors[i].numbers[k] : k \in DOMAIN errors[i].numbers}
                        = RepeatedPositions
        /\ RepeatedPositions = {} => ErrorsOfKind("duplicate_positions") = {}

(* C8 witness: two different position values are each repeated and the one
   duplicate-position error names both *)
Wit_C8_TwoRepeatedValues ==
    /\ Validated
    /\ Cardinality(RepeatedPositions) >= 2
    /\ Cardinality(ErrorsOfKind("duplicate_positions")) = 1
    /\ \E i \in ErrorsOfKind("duplicate_positions") :
          \A p \in RepeatedPositions : \E k \in DOMAIN errors[i].numbers :
              errors[i].numbers[k] = p

(* the three cases of C9 for the components of one position value p, with
   MissingP, NotAboveP and AboveP telling the case a component is in: every
   component in the first (second) case has its own non-existent-parent
   (parent-level) error, and the components in the third case have none *)
ParentErrorsMatch(MissingP(_), NotAboveP(_), AboveP(_)) ==
    \A p \in PositionSet(request.components) :
        LET here == ComponentsWhere(LAMBDA c : c.position = p)
            n_missing == Cardinality({i \in here : MissingP(request.components[i])})
            n_not_above == Cardinality({i \in here : NotAboveP(request.components[i])})
            n_above == Cardinality({i \in here : AboveP(request.components[i])})
            e_missing == Cardinality(ErrorsAbout("parent_missing", p))
            e_level == Cardinality(ErrorsAbout("parent_level", p))
        IN /\ e_missing >= n_missing
           /\ e_level >= n_not_above
           /\ e_missing <= Cardinality(here) - n_above
           /\ e_level <= Cardinality(here) - n_above

(* C9 as stated: the parent of a component is any component that has the
   position it names *)
SomeParentNotAbove(c) ==
    /\ c.parent_position # None
    /\ \E j \in DOMAIN request.components :
          /\ request.components[j].position = c.parent_position[1]
          /\ request.components[j].level >= c.level

SomeParentAbove(c) ==
    /\ c.parent_position # None
    /\ \E j \in DOMAIN request.components :
          /\ request.components[j].position = c.parent_position[1]
          /\ request.components[j].level < c.level

Orig_C9_AnyComponentOfThatPosition ==
    Validated => ParentErrorsMatch(HasMissingParent, SomeParentNotAbove, SomeParentAbove)

(* C9 amended: for every component whose parent_position is set: if no
   component has that position, a non-existent-parent error is reported for
   it; if the FIRST component of the list with that position has a level
   greater than or equal to the child's (a component naming itself
   included), a parent-level error is reported for it; if that first
   component has a strictly smaller level, neither error is caused *)
Thm_C9_ParentErrors ==
    Validated => ParentErrorsMatch(HasMissingParent, HasParentNotAbove, HasParentAbove)

(* C9 witness: in one report, a component naming a position nobody has gets
   the non-existent-parent error and a component naming itself as parent
   gets the parent-level error *)
Wit_C9_MissingAndSelfParent ==
    /\ Validated
    /\ DistinctPositions(request.components)
    /\ \E i, j \in DOMAIN request.components :
          /\ HasMissingParent(request.components[i])
          /\ ErrorsAbout("parent_missing", request.components[i].position) # {}
          /\ request.components[j].parent_position = Some(request.components[j].position)
          /\ ErrorsAbout("parent_level", request.components[j].position) # {}

(* C10: a root-count error is reported exactly when the number of
   components with level = 0 differs from 1, and it states that number *)
Thm_C10_MainCount ==
    Validated =>
        LET n == Cardinality(ComponentsWhere(LAMBDA c : c.level = 0))
        IN /\ n # 1 => Cardinality(ErrorsOfKind("main_count")) = 1
           /\ n = 1 => ErrorsOfKind("main_count") = {}
           /\ \A i \in ErrorsOfKind("main_count") : errors[i].numbers = <<n>>

(* C10 witness: two components of level 0 give the error stating 2 *)
Wit_C10_TwoMainProducts ==
    /\ Validated
    /\ Cardinality(ComponentsWhere(LAMBDA c : c.level = 0)) = 2
    /\ \E i \in ErrorsOfKind("main_count") : errors[i].numbers = <<2>>

(* C11 as stated: a request that validate_request accepts has, for every
   component with level > 0, a parent_position naming an existing component
   of strictly smaller level *)
Orig_C11_ValidImpliesParents ==
    (Validated /\ is_valid) =>
        \A i \in DOMAIN request.components :
            LET c == request.components[i]
            IN c.level > 0 =>
                  /\ c.parent_position # None
                  /\ \E j \in DOMAIN request.components :
                        /\ request.components[j].position = c.parent_position[1]
                        /\ request.components[j].level < c.level

----------------------------------------------------------------------------
(* Properties of the layout engine outside the enumerations *)

(* C12: for a layout_type that is none of 'tree', 'vertical', 'horizontal',
   calculate_positions returns a map (no failure), and that map is the one
   the same call with layout_type = 'tree' returns *)
Thm_C12_UnknownLayoutIsTree ==
    (pc = "placed" /\ request.layout_type \notin {"tree", "vertical", "horizontal"})
    => /\ positions = calculate_positions(request.components, "tree",
                                          request.gost_format, request.orientation)
       /\ DOMAIN positions = PositionSet(request.components)

(* C12 witness: a root and a child placed under an unknown layout type, one
   below the other at different x or y than the column and the row layouts
   would give them *)
Wit_C12_CircularPlacedAsTree ==
    /\ pc = "placed" /\ request.layout_type = "circular"
    /\ Len(request.components) = 2
    /\ request.components[1].position # request.components[2].position
    /\ request.components[1].level < request.components[2].level
    /\ YOf(2) = YOf(1) + Mm(LEVEL_SPACING)
    /\ positions # calculate_positions(request.components, "vertical",
                                       request.gost_format, request.orientation)
    /\ positions # calculate_positions(request.components, "horizontal",
                                       request.gost_format, request.orientation)

----------------------------------------------------------------------------
(* Properties of one scheme *)

(* some box of the returned map lies outside the sheet *)
SomeBoxOutside ==
    \E p \in DOMAIN positions :
        \/ positions[p][1] < 0
        \/ positions[p][2] < 0
        \/ positions[p][1] + Mm(COMPONENT_WIDTH) > Mm(PageWidth)
        \/ positions[p][2] + Mm(COMPONENT_HEIGHT) > Mm(PageHeight)

(* C13: for every request the validator accepts, with every page format,
   orientation and layout type, calculate_positions can be called and
   returns a map with a coordinate pair for every component, also when boxes
   lie outside the sheet: overflow never makes it refuse *)
Thm_C13_ValidListIsPlaced ==
    /\ (pc = "validated" /\ is_valid) => ENABLED PlaceValidated
    /\ pc \in {"placed", "checked"} =>
          /\ DOMAIN positions = PositionSet(request.components)
          /\ \A p \in DOMAIN positions :
                positions[p] \in Int \X Int

(* C13 witness: an accepted list of three components has been placed in a
   row on A4 portrait, its last box beyond the right edge of the sheet *)
Wit_C13_OverflowingRowPlaced ==
    /\ pc = "placed" /\ is_valid
    /\ request.layout_type = "horizontal"
    /\ request.gost_format = "A4" /\ request.orientation = "portrait"
    /\ Len(request.components) = 3
    /\ SomeBoxOutside
    /\ XOf(3) + Mm(COMPONENT_WIDTH) > Mm(PageWidth)

----------------------------------------------------------------------------
(* Properties of the boundary check *)

LayoutWarningsAbout(kind, p) ==
    {i \in DOMAIN layout_warnings :
        layout_warnings[i].kind = kind /\ layout_warnings[i].position = p}

(* the box of key p lies within the sheet *)
BoxInside(p) ==
    /\ 0 <= positions[p][1]
    /\ 0 <= positions[p][2]
    /\ positions[p][1] + Mm(COMPONENT_WIDTH) <= Mm(PageWidth)
    /\ positions[p][2] + Mm(COMPONENT_HEIGHT) <= Mm(PageHeight)

(* C14: validate_layout returns, for each entry (x, y) of the map, one
   left/top warning if x < 0 or y < 0, one right-boundary warning if
   x + boxWidth > pageWidth and one bottom-boundary warning if
   y + boxHeight > pageHeight, and nothing else; the list is empty exactly
   when every box lies within the sheet *)
Thm_C14_BoundaryWarnings ==
    pc = "checked" =>
        /\ \A i \in DOMAIN layout_warnings :
              /\ layout_warnings[i].kind \in {"left_top", "right", "bottom"}
              /\ layout_warnings[i].position \in DOMAIN positions
        /\ \A p \in DOMAIN positions :
              LET x == positions[p][1]
                  y == positions[p][2]
              IN /\ Cardinality(LayoutWarningsAbout("left_top", p))
                      = Indicator(x < 0 \/ y < 0)
                 /\ Cardinality(LayoutWarningsAbout("right", p))
                      = Indicator(x + Mm(COMPONENT_WIDTH) > Mm(PageWidth))
                 /\ Cardinality(LayoutWarningsAbout("bottom", p))
                      = Indicator(y + Mm(COMPONENT_HEIGHT) > Mm(PageHeight))
        /\ layout_warnings = << >> <=> \A p \in DOMAIN positions : BoxInside(p)

(* C14 witness: of two entries, the one at x = -5 mm and below the sheet got
   a left/top and a bottom warning, the one past the right edge a
   right-boundary warning *)
Wit_C14_NegativeAndRight ==
    /\ pc = "checked"
    /\ DOMAIN positions = {1, 2}
    /\ positions[1][1] = Mm(0 - 5)
    /\ positions[1][2] + Mm(COMPONENT_HEIGHT) > Mm(PageHeight)
    /\ positions[2][1] + Mm(COMPONENT_WIDTH) > Mm(PageWidth)
    /\ positions[2][2] = 0
    /\ Len(layout_warnings) = 3
    /\ LayoutWarningsAbout("left_top", 1) # {}
    /\ LayoutWarningsAbout("bottom", 1) # {}
    /\ LayoutWarningsAbout("right", 2) # {}

----------------------------------------------------------------------------
(* Properties of a row checked by validate_layout *)

LayoutWarningsFor(p) ==
    {i \in DOMAIN layout_warnings : layout_warnings[i].position = p}

PastRightMargin(i) == XOf(i) + Mm(COMPONENT_WIDTH) > Mm(PageWidth - MARGIN_RIGHT)
PastRightEdge(i) == XOf(i) + Mm(COMPONENT_WIDTH) > Mm(PageWidth)

RowChecked == pc = "checked" /\ request.layout_type = "horizontal"

(* C15 as stated: in horizontal layout every component whose right edge
   exceeds pageWidth - rightMargin is in the map, and validate_layout on that
   map with the same page gives a warning for it *)
Orig_C15_MarginOverflowWarned ==
    RowChecked =>
        \A i \in DOMAIN request.components :
            PastRightMargin(i) =>
                /\ request.components[i].position \in DOMAIN positions
                /\ LayoutWarningsFor(request.components[i].position) # {}

(* C15 amended: in horizontal layout every component whose right edge exceeds
   pageWidth - rightMargin is in the map; validate_layout on that map with
   the same page gives a (right-boundary) warning for a component exactly
   when its right edge exceeds pageWidth itself, so a component that ends
   between the right margin and the page edge is placed without a warning *)
Thm_C15_EdgeOverflowWarned ==
    RowChecked =>
        \A i \in DOMAIN request.components :
            LET p == request.components[i].position
            IN /\ PastRightMargin(i) => p \in DOMAIN positions
               /\ PastRightEdge(i) =>
                     /\ Cardinality(LayoutWarningsFor(p)) = 1
                     /\ LayoutWarningsAbout("right", p) # {}
               /\ ~PastRightEdge(i) => LayoutWarningsFor(p) = {}

(* C15 witness: a row of three on A4 portrait has been checked: component 2
   ends between the right margin and the page edge and has no warning,
   component 3 ends beyond the page edge and has one *)
Wit_C15_BetweenMarginAndEdge ==
    /\ RowChecked
    /\ Len(request.components) = 3
    /\ PastRightMargin(2) /\ ~PastRightEdge(2)
    /\ LayoutWarningsFor(request.components[2].position) = {}
    /\ PastRightEdge(3)
    /\ LayoutWarningsFor(request.components[3].position) # {}

----------------------------------------------------------------------------
(* Frame of the three operations *)

(* C16: no step changes the request (validate_request leaves the component
   list, its order, every component field, the title block and the three
   configuration values as they were; calculate_positions leaves the
   component list as it was), and the step of validate_layout leaves the
   positions map, keys in their order and values, as it was *)
Thm_C16_InputsUnchanged ==
    [][/\ request' = request
       /\ pc = "placed" => (positions' = positions /\ key_order' = key_order)]_vars

(* C16 witness: all three operations have run on a request, the last one
   reporting a box that is still where calculate_positions put it *)
Wit_C16_CheckedWithWarnings ==
    /\ pc = "checked" /\ is_valid
    /\ layout_warnings # << >>
    /\ positions = calculate_positions(request.components, request.layout_type,
                                       request.gost_format, request.orientation)
    /\ \E p \in DOMAIN positions : ~BoxInside(p)

----------------------------------------------------------------------------
(* Properties of the single checks of the validator *)

WarningsOfKind(kind) == {i \in DOMAIN warnings : warnings[i].kind = kind}

TitleErrorKinds ==
    {"title_block_empty", "title_designation_required", "title_designation_format",
     "title_name_required"}

TitleWarningKinds == {"developer_recommended", "organization_recommended"}

TitleErrors == {i \in DOMAIN errors : errors[i].kind \in TitleErrorKinds}
TitleWarnings == {i \in DOMAIN warnings : warnings[i].kind \in TitleWarningKinds}

(* C17: a missing title block gives exactly one title-block error and no
   title-block warning; otherwise a missing designation gives an error, a
   present designation that does not match the format gives an error naming
   the value, a missing name gives an error, a missing developer and a
   missing organization give one warning each and never an error; a title
   block with valid designation and name and neither developer nor
   organization contributes no error *)
Thm_C17_TitleBlockCheck ==
    Validated =>
        LET tb == request.title_block_data
        IN /\ \A i \in DOMAIN errors : errors[i].kind \notin TitleWarningKinds
           /\ tb = None =>
                 /\ Cardinality(TitleErrors) = 1
                 /\ Cardinality(ErrorsOfKind("title_block_empty")) = 1
                 /\ TitleWarnings = {}
           /\ tb # None =>
                 /\ ErrorsOfKind("title_block_empty") = {}
                 /\ Cardinality(ErrorsOfKind("title_designation_required"))
                      = Indicator(~TruthyText(tb[1].designation))
                 /\ Cardinality(ErrorsOfKind("title_designation_format"))
                      = Indicator(/\ TruthyText(tb[1].designation)
                                  /\ ~matches_DESIGNATION_PATTERN(tb[1].designation[1]))
                 /\ \A i \in ErrorsOfKind("title_designation_format") :
                       errors[i].text = tb[1].designation[1]
                 /\ Cardinality(ErrorsOfKind("title_name_required"))
                      = Indicator(~Truthy(tb[1].name))
                 /\ Cardinality(WarningsOfKind("developer_recommended"))
                      = Indicator(~Truthy(tb[1].developer))
                 /\ Cardinality(WarningsOfKind("organization_recommended"))
                      = Indicator(~Truthy(tb[1].organization))
                 /\ (/\ TruthyText(tb[1].designation)
                     /\ matches_DESIGNATION_PATTERN(tb[1].designation[1])
                     /\ Truthy(tb[1].name)) => TitleErrors = {}

(* C17 witness: a title block with a valid designation and a name, without
   developer and organization, on an otherwise clean request: two warnings,
   no error, the request is valid *)
Wit_C17_OnlyRecommendedFieldsMissing ==
    /\ Validated
    /\ request.title_block_data # None
    /\ request.title_block_data[1].designation = Some(GoodDesignation)
    /\ request.title_block_data[1].name = Some("Scheme")
    /\ request.title_block_data[1].developer = None
    /\ request.title_block_data[1].organization = None
    /\ Cardinality(TitleWarnings) = 2
    /\ errors = << >> /\ is_valid

WarningsAbout(kind, p) ==
    {i \in DOMAIN warnings : warnings[i].kind = kind /\ warnings[i].position = Some(p)}

(* number of components with position p that satisfy P *)
ComponentsAt(p, P(_)) ==
    Cardinality({i \in DOMAIN request.components :
                    request.components[i].position = p /\ P(request.components[i])})

(* C18: in a non-empty list every component gets, whatever the other
   components and its other fields, one error for a designation that does
   not match the format, one for quantity < 1, one for level < 0 and one
   warning (never an error) for an empty name: one entry per violation *)
Thm_C18_PerComponentCheck ==
    (Validated /\ request.components # << >>) =>
        /\ \A i \in DOMAIN errors : errors[i].kind # "component_name_recommended"
        /\ \A p \in PositionSet(request.components) :
              /\ Cardinality(ErrorsAbout("component_designation_format", p))
                   = ComponentsAt(p, LAMBDA c : ~matches_DESIGNATION_PATTERN(c.designation))
              /\ \A i \in ErrorsAbout("component_designation_format", p) :
                    \E j \in DOMAIN request.components :
                        /\ request.components[j].position = p
                        /\ request.components[j].designation = errors[i].text
              /\ Cardinality(ErrorsAbout("component_quantity", p))
                   = ComponentsAt(p, LAMBDA c : c.quantity < 1)
              /\ Cardinality(ErrorsAbout("component_level_negative", p))
                   = ComponentsAt(p, LAMBDA c : c.level < 0)
              /\ Cardinality(WarningsAbout("component_name_recommended", p))
                   = ComponentsAt(p, LAMBDA c : c.name = "")

(* C18 witness: of two components the second violates all four rules and has
   three errors and one warning, the first violates none and has no entry *)
Wit_C18_AllFourViolations ==
    /\ Validated
    /\ Len(request.components) = 2
    /\ request.components[1] = Component(1, "Part", GoodDesignation, 1, 0, None)
    /\ request.components[2] = Component(2, "", BadDesignation, 0, 0 - 1, None)
    /\ Cardinality({i \in DOMAIN errors : errors[i].position = Some(2)}) = 3
    /\ Cardinality(WarningsAbout("component_name_recommended", 2)) = 1
    /\ {i \in DOMAIN errors : errors[i].position = Some(1)} = {}
    /\ {i \in DOMAIN warnings : warnings[i].position = Some(1)} = {}

(* C19: a page-format error is reported exactly when the page format is not
   one of A0..A4, an orientation error exactly when the orientation is not
   portrait or landscape, a layout-type error exactly when the layout type
   is not tree, vertical or horizontal; each at most once, naming the value,
   whatever the other two values are *)
Thm_C19_ConfigurationChecks ==
    Validated =>
        /\ Cardinality(ErrorsOfKind("unsupported_format"))
             = Indicator(request.gost_format \notin {"A0", "A1", "A2", "A3", "A4"})
        /\ Cardinality(ErrorsOfKind("unsupported_orientation"))
             = Indicator(request.orientation \notin {"portrait", "landscape"})
        /\ Cardinality(ErrorsOfKind("unsupported_layout_type"))
             = Indicator(request.layout_type \notin {"tree", "vertical", "horizontal"})
        /\ \A i \in ErrorsOfKind("unsupported_format") :
              errors[i].word = request.gost_format
        /\ \A i \in ErrorsOfKind("unsupported_orientation") :
              errors[i].word = request.orientation
        /\ \A i \in ErrorsOfKind("unsupported_layout_type") :
              errors[i].word = request.layout_type

(* C19 witness: an unsupported format together with an unsupported layout
   type and a supported orientation on a clean request: exactly the format
   and the layout-type error *)
Wit_C19_FormatAndLayoutRejected ==
    /\ Validated
    /\ request.gost_format = "A5"
    /\ request.orientation = "portrait"
    /\ request.layout_type = "circular"
    /\ Len(errors) = 2
    /\ errors[1].kind = "unsupported_format"
    /\ errors[2].kind = "unsupported_layout_type"

----------------------------------------------------------------------------
(* Properties of the designation format *)

(* the string is four digits, a dot, two digits, a dot, two digits, a dot and
   three digits, with nothing before or after *)
ExactlyTheFormat(s) ==
    /\ Len(s) = 14
    /\ \A i \in {1, 2, 3, 4, 6, 7, 9, 10, 12, 13, 14} : IsDigit(s[i])
    /\ \A i \in {5, 8, 11} : s[i] = "."

(* C20 as stated: the designation of a component, and that of the title
   block, causes a format error exactly when it is not the format with
   nothing before or after; "12.3.4.5" gives the error, "1234.01.00.000"
   gives none *)
Orig_C20_FormatErrorIffNotExact ==
    Validated =>
        LET cd == request.components[1].designation
            td == request.title_block_data[1].designation[1]
        IN /\ ErrorsOfKind("component_designation_format") # {} <=> ~ExactlyTheFormat(cd)
           /\ ErrorsOfKind("title_designation_format") # {} <=> ~ExactlyTheFormat(td)
           /\ cd = BadDesignation => ErrorsOfKind("component_designation_format") # {}
           /\ cd = GoodDesignation => ErrorsOfKind("component_designation_format") = {}

----------------------------------------------------------------------------
(* Properties of the page size *)

(* the two fixed dimensions of a format, larger one first *)
FormatDimensions(page_format) ==
    <<Max(PAGE_SIZES[page_format][1], PAGE_SIZES[page_format][2]),
      Min(PAGE_SIZES[page_format][1], PAGE_SIZES[page_format][2])>>

(* C21: for every format A0..A4 the page size the layout uses is the
   format's two dimensions with width >= height for landscape and
   height >= width for portrait, the same two numbers swapped (A4: 297 x 210
   landscape, 210 x 297 portrait); the column of the vertical layout and the
   row of the horizontal layout are centred on that width and height *)
Thm_C21_PageSizeByOrientation ==
    (/\ pc = "placed"
     /\ request.gost_format \in {"A0", "A1", "A2", "A3", "A4"}
     /\ request.orientation \in {"portrait", "landscape"})
    => LET dims == FormatDimensions(request.gost_format)
           other == IF request.orientation = "portrait" THEN "landscape" ELSE "portrait"
       IN /\ request.orientation = "landscape" =>
                (PageWidth = dims[1] /\ PageHeight = dims[2] /\ PageWidth >= PageHeight)
          /\ request.orientation = "portrait" =>
                (PageWidth = dims[2] /\ PageHeight = dims[1] /\ PageHeight >= PageWidth)
          /\ get_page_size(request.gost_format, other) = <<PageHeight, PageWidth>>
          /\ request.gost_format = "A4" =>
                <<PageWidth, PageHeight>> =
                    IF request.orientation = "landscape" THEN <<297, 210>> ELSE <<210, 297>>
          /\ request.layout_type = "vertical" =>
                \A p \in DOMAIN positions :
                    positions[p][1] = HalfOf(PageWidth - COMPONENT_WIDTH)
          /\ request.layout_type = "horizontal" =>
                \A p \in DOMAIN positions :
                    positions[p][2] = HalfOf(PageHeight - COMPONENT_HEIGHT)

(* C21 witness: a column placed on A4 portrait stands at x = (210 - 60)/2 mm,
   not at the (297 - 60)/2 mm of the landscape sheet *)
Wit_C21_ColumnOnA4Portrait ==
    /\ Placed("vertical")
    /\ request.gost_format = "A4" /\ request.orientation = "portrait"
    /\ PageWidth = 210 /\ PageHeight = 297
    /\ \A p \in DOMAIN positions : positions[p][1] = 150

----------------------------------------------------------------------------
(* Properties of the tree layout *)

TreePlaced == Placed("tree") /\ DistinctPositions(request.components)

LevelsPresent == {request.components[i].level : i \in DOMAIN request.components}

AvailableWidth == PageWidth - MARGIN_LEFT - MARGIN_RIGHT

(* 0-based index of the i-th input component within its level, in input order *)
IndexInLevel(i) ==
    Cardinality({j \in 1..(i - 1) :
                    request.components[j].level = request.components[i].level})

(* the component of level l with index k within the level *)
ComponentOfLevel(l, k) ==
    CHOOSE i \in DOMAIN request.components :
        request.components[i].level = l /\ IndexInLevel(i) = k

Wraps(l) == LevelCount(l) > ItemsPerRow

(* gaps of the first row of level l, in half-millimetres: from the left margin
   to its first box, and from its last box (or from the spacing that follows
   that box) to the right margin *)
LeftGap(l) == XOf(ComponentOfLevel(l, 0)) - Mm(MARGIN_LEFT)

RightGapAfterBox(l) ==
    Mm(PageWidth - MARGIN_RIGHT)
    - (XOf(ComponentOfLevel(l, Min(LevelCount(l), ItemsPerRow) - 1)) + Mm(COMPONENT_WIDTH))

RightGapAfterSpacing(l) == RightGapAfterBox(l) - Mm(HORIZONTAL_SPACING)

(* C22 as stated: the first row of a level that wraps is centered in the
   available width: the gap before its first box equals the gap after its
   end (taken at its last box, or at the spacing after it) *)
Orig_C22_FirstRowCentered ==
    TreePlaced =>
        \A l \in LevelsPresent :
            Wraps(l) => \/ LeftGap(l) = RightGapAfterBox(l)
                        \/ LeftGap(l) = RightGapAfterSpacing(l)

(* C22 amended: a level that wraps has no centered row: every row starts at
   xOffset = (availableWidth - n * (boxWidth + hSpacing))/2 + leftMargin with
   n the full count of the level, so the gap before the first row is smaller
   than the gap after it (counted from the spacing after its last box) by
   (n - itemsPerRow) * (boxWidth + hSpacing); a level that does not wrap is
   centered, its two gaps counted that way being equal *)
Thm_C22_WrappedRowShiftedLeft ==
    TreePlaced =>
        \A l \in LevelsPresent :
            /\ LeftGap(l) = HalfOf(AvailableWidth
                                   - LevelCount(l) * (COMPONENT_WIDTH + HORIZONTAL_SPACING))
            /\ Wraps(l) =>
                  RightGapAfterSpacing(l) - LeftGap(l)
                    = Mm((LevelCount(l) - ItemsPerRow) * (COMPONENT_WIDTH + HORIZONTAL_SPACING))
            /\ ~Wraps(l) => RightGapAfterSpacing(l) = LeftGap(l)

(* C22 witness: three components of one level on A4 portrait (one per row):
   the first box is at x = -15 mm, 55 mm left of the left margin, and 105 mm
   of the working area are free to the right of its slot *)
Wit_C22_FirstRowOffSheet ==
    /\ TreePlaced
    /\ request.gost_format = "A4" /\ request.orientation = "portrait"
    /\ Len(request.components) = 3
    /\ LevelCount(request.components[1].level) = 3
    /\ XOf(1) = Mm(0 - 15)
    /\ LeftGap(request.components[1].level) = Mm(0 - 55)
    /\ RightGapAfterSpacing(request.components[1].level) = Mm(105)

(* xOffset of level l: (availableWidth - n * (boxWidth + hSpacing))/2 +
   leftMargin with n the full count of the level, in half-millimetres *)
XOffset(l) ==
    HalfOf(AvailableWidth - LevelCount(l) * (COMPONENT_WIDTH + HORIZONTAL_SPACING))
    + Mm(MARGIN_LEFT)

(* the input components of level l that share the row at height y *)
RowOf(l, y) ==
    {i \in DOMAIN request.components : request.components[i].level = l /\ YOf(i) = y}

(* the closed form of C23: the k-th component of a level (k = 0, 1, ..., in
   input order, not by position id) is at
   x = xOffset + (k mod itemsPerRow) * (boxWidth + hSpacing) and
   y = yLevelStart + floor(k / itemsPerRow) * (boxHeight + verticalSpacing),
   with itemsPerRow = max(1, floor(availableWidth / (boxWidth + hSpacing)));
   no row holds more than itemsPerRow components and every row of a level
   starts at the same xOffset *)
TreeClosedForm ==
    /\ ItemsPerRow = Max(1, (PageWidth - MARGIN_LEFT - MARGIN_RIGHT)
                             \div (COMPONENT_WIDTH + HORIZONTAL_SPACING))
    /\ \A i \in DOMAIN request.components :
          LET l == request.components[i].level
              k == IndexInLevel(i)
          IN /\ XOf(i) = XOffset(l)
                         + Mm((k % ItemsPerRow) * (COMPONENT_WIDTH + HORIZONTAL_SPACING))
             /\ YOf(i) = YOf(ComponentOfLevel(l, 0))
                         + Mm((k \div ItemsPerRow) * (COMPONENT_HEIGHT + VERTICAL_SPACING))
             /\ Cardinality(RowOf(l, YOf(i))) <= ItemsPerRow
             /\ \E j \in RowOf(l, YOf(i)) : XOf(j) = XOffset(l)
             /\ \A j \in RowOf(l, YOf(i)) : XOf(j) >= XOffset(l)

(* C23 as stated: the closed form gives the place of the k-th component of a
   level in tree layout, for any component list *)
Orig_C23_ClosedFormAnyList ==
    Placed("tree") => TreeClosedForm

(* C23 amended: for a component list with distinct positions the closed form
   gives the place of the k-th component of every level in tree layout *)
Thm_C23_TreeClosedForm ==
    TreePlaced => TreeClosedForm

(* C23 witness: three components of one level given in the order of position
   ids 3, 1, 2 on A4 landscape (two per row): 3 and 1 share the first row in
   that order, 2 starts the second row under 3 *)
Wit_C23_InputOrderNotPositionOrder ==
    /\ TreePlaced
    /\ request.gost_format = "A4" /\ request.orientation = "landscape"
    /\ Len(request.components) = 3
    /\ request.components[1].position = 3
    /\ request.components[2].position = 1
    /\ request.components[3].position = 2
    /\ LevelCount(request.components[1].level) = 3
    /\ positions[1] = <<positions[3][1] + Mm(80), positions[3][2]>>
    /\ positions[2] = <<positions[3][1], positions[3][2] + Mm(60)>>

(* the levels present, in the order the claim gives them: ascending *)
LowestLevel == CHOOSE l \in LevelsPresent : \A m \in LevelsPresent : l <= m

NextLevelPresent(l, m) ==
    l \in LevelsPresent /\ m \in LevelsPresent /\ l < m
    /\ \A n \in LevelsPresent : ~(l < n /\ n < m)

(* y of the first and of the last component of level l (first and last row) *)
FirstRowY(l) == YOf(ComponentOfLevel(l, 0))
LastRowY(l) == YOf(ComponentOfLevel(l, LevelCount(l) - 1))

(* the statement of C24 about the rows of the levels present *)
LevelsAscending ==
    /\ LEVEL_SPACING = 80
    /\ FirstRowY(LowestLevel) = Mm(MARGIN_TOP)
    /\ \A l, m \in LevelsPresent :
          NextLevelPresent(l, m) => FirstRowY(m) = LastRowY(l) + Mm(LEVEL_SPACING)

(* C24 as stated: in tree layout, for any component list in any input order,
   the lowest level present starts at y = topMargin and the first row of each
   following level present is levelSpacing below the last row of the
   previous level present, also when level numbers are not consecutive *)
Orig_C24_LevelsAscendingAnyList ==
    Placed("tree") => LevelsAscending

(* C24 amended: the same for a component list with distinct positions *)
Thm_C24_LevelsAscending ==
    TreePlaced => LevelsAscending

(* C24 witness: a component of level 2 given before the one of level 0, no
   level 1 present: level 0 is at y = 40 mm, level 2 at y = 120 mm *)
Wit_C24_DeeperLevelGivenFirst ==
    /\ TreePlaced
    /\ Len(request.components) = 2
    /\ request.components[1].level = 2
    /\ request.components[2].level = 0
    /\ YOf(2) = Mm(MARGIN_TOP)
    /\ YOf(1) = Mm(MARGIN_TOP + LEVEL_SPACING)

----------------------------------------------------------------------------
(* Properties of the handlers *)

HandlerFailed == pc \in {"v1_failed", "v2_failed", "fixed_failed"}
HandlerPlaced == pc \in {"v1_placed", "v2_placed", "fixed_placed"}

(* C25 as stated: in every handler a request for which validate_request
   reports no error proceeds to calculate_positions, and a request for which
   it reports at least one error ends in the failure result with no
   calculate_positions performed *)
Orig_C25_ValidationGatesLayout ==
    (HandlerFailed \/ HandlerPlaced) =>
        /\ errors = << >> =>
              (HandlerPlaced /\ DOMAIN positions = PositionSet(request.components))
        /\ errors # << >> => (HandlerFailed /\ positions = EmptyDict)

----------------------------------------------------------------------------
(* Properties of the empty component list *)

ComponentErrorKinds ==
    {"duplicate_positions", "component_designation_format", "component_quantity",
     "component_level_negative", "parent_missing", "parent_level"}

(* C26: an empty component list is not valid; the report holds the
   empty-list error and the root-count error stating 0, no duplicate-position
   error and no error or warning about a component; the title-block check
   and the three enumeration checks report as they do for any list *)
Thm_C26_EmptyList ==
    (Validated /\ request.components = << >>) =>
        /\ ~is_valid
        /\ Cardinality(ErrorsOfKind("components_empty")) = 1
        /\ Cardinality(ErrorsOfKind("main_count")) = 1
        /\ \A i \in ErrorsOfKind("main_count") : errors[i].numbers = <<0>>
        /\ \A i \in DOMAIN errors :
              errors[i].kind \notin ComponentErrorKinds /\ errors[i].position = None
        /\ WarningsOfKind("component_name_recommended") = {}
        /\ \A kind \in TitleErrorKinds \cup {"unsupported_format",
                  "unsupported_orientation", "unsupported_layout_type"} :
              Cardinality(ErrorsOfKind(kind)) = Violations(kind)
        /\ request.title_block_data # None =>
              /\ Cardinality(WarningsOfKind("developer_recommended"))
                   = Indicator(~Truthy(request.title_block_data[1].developer))
              /\ Cardinality(WarningsOfKind("organization_recommended"))
                   = Indicator(~Truthy(request.title_block_data[1].organization))

(* C26 witness: an empty list with a clean title block, an unsupported page
   format and supported orientation and layout type: exactly the empty-list
   error, the format error and the root-count error stating 0, in that order *)
Wit_C26_EmptyListWithBadFormat ==
    /\ Validated
    /\ request.components = << >>
    /\ request.title_block_data = CleanTitleBlock
    /\ request.gost_format = "A5"
    /\ Len(errors) = 3
    /\ errors[1].kind = "components_empty"
    /\ errors[2].kind = "unsupported_format"
    /\ errors[3].kind = "main_count" /\ errors[3].numbers = <<0>>
    /\ ~is_valid

----------------------------------------------------------------------------
(* Properties of the boxes *)

Distance(a, b) == IF a >= b THEN a - b ELSE b - a

(* the boxes of the keys p and q share no interior point *)
BoxesApart(p, q) ==
    \/ Distance(positions[p][1], positions[q][1]) >= Mm(COMPONENT_WIDTH)
    \/ Distance(positions[p][2], positions[q][2]) >= Mm(COMPONENT_HEIGHT)

(* C27: for components with distinct positions, in each of the three layout
   types, for every page format and orientation, any two distinct components
   differ by at least boxWidth (60) in x or by at least boxHeight (20) in y:
   no two boxes overlap and no two components share a coordinate *)
Thm_C27_NoOverlap ==
    (/\ pc = "placed"
     /\ request.layout_type \in {"tree", "vertical", "horizontal"}
     /\ DistinctPositions(request.components))
    => /\ COMPONENT_WIDTH = 60 /\ COMPONENT_HEIGHT = 20
       /\ \A i, j \in DOMAIN request.components :
             i # j => /\ BoxesApart(request.components[i].position,
                                    request.components[j].position)
                      /\ <<XOf(i), YOf(i)>> # <<XOf(j), YOf(j)>>

(* C27 witness: two components of one level on A4 portrait, where the tree
   layout holds one box per row: the second box is at the same x, one row
   (60 mm) lower *)
Wit_C27_WrappedBoxesApart ==
    /\ Placed("tree")
    /\ request.gost_format = "A4" /\ request.orientation = "portrait"
    /\ Len(request.components) = 2
    /\ DistinctPositions(request.components)
    /\ request.components[1].level = request.components[2].level
    /\ XOf(1) = XOf(2)
    /\ YOf(2) = YOf(1) + Mm(COMPONENT_HEIGHT + VERTICAL_SPACING)

----------------------------------------------------------------------------
(* Properties of the parent links of an accepted request *)

(* following parent_position from the i-th component ends, within steps
   steps, at a component without parent, the level falling at every step *)
RECURSIVE ChainEnds(_, _)
ChainEnds(i, steps) ==
    LET c == request.components[i]
    IN IF c.parent_position = None THEN TRUE
       ELSE /\ steps > 0
            /\ c.parent_position[1] \in PositionSet(request.components)
            /\ LET j == ParentIndex(c.parent_position[1])
               IN /\ request.components[j].level < c.level
                  /\ ChainEnds(j, steps - 1)

(* C28: in a request that validate_request accepts the parent links form no
   cycle: from any component, following parent_position strictly decreases
   the level and ends after finitely many steps at a component without
   parent; and the single component of level 0 has no parent_position *)
Thm_C28_NoParentCycle ==
    (Validated /\ is_valid) =>
        /\ \A i \in DOMAIN request.components : ChainEnds(i, Len(request.components))
        /\ Cardinality(ComponentsWhere(LAMBDA c : c.level = 0)) = 1
        /\ \A i \in DOMAIN request.components :
              request.components[i].level = 0
              => request.components[i].parent_position = None

(* C28 witness: an accepted request in which a component of level 1 names
   the main product as its parent, and the chain from it ends there *)
Wit_C28_ChildOfMainProduct ==
    /\ Validated /\ is_valid
    /\ Len(request.components) = 2
    /\ request.components[1].level = 1
    /\ request.components[1].parent_position = Some(request.components[2].position)
    /\ request.components[2].level = 0
    /\ request.components[2].parent_position = None
    /\ ChainEnds(1, 1) /\ ~ChainEnds(1, 0)

----------------------------------------------------------------------------
(* Properties of calculate_positions on configuration values outside the
   enumerations *)

(* the format and the orientation the layout engine falls back to *)
EffectiveFormat ==
    IF request.gost_format \in {"A0", "A1", "A2", "A3", "A4"}
    THEN request.gost_format ELSE "A3"

EffectiveOrientation ==
    IF request.orientation = "portrait" THEN "portrait" ELSE "landscape"

(* C29: calculate_positions returns a result for every format and
   orientation string: a format that is not A0..A4 is laid out on the A3
   dimensions 420 x 297, an orientation other than 'portrait' is laid out as
   landscape, and the result is the one of the same call with page format
   'A3', respectively orientation 'landscape': one position per distinct
   position id, the same coordinates, the same key order *)
Thm_C29_ConfigurationFallback ==
    pc = "placed" =>
        /\ DOMAIN positions = PositionSet(request.components)
        /\ request.gost_format \notin {"A0", "A1", "A2", "A3", "A4"} =>
              /\ {PageWidth, PageHeight} = {420, 297}
              /\ <<PageWidth, PageHeight>> =
                     get_page_size("A3", request.orientation)
              /\ positions = calculate_positions(request.components,
                                 request.layout_type, "A3", request.orientation)
        /\ request.orientation # "portrait" =>
              /\ PageWidth >= PageHeight
              /\ <<PageWidth, PageHeight>> =
                     get_page_size(request.gost_format, "landscape")
              /\ positions = calculate_positions(request.components,
                                 request.layout_type, request.gost_format,
                                 "landscape")
        /\ positions = calculate_positions(request.components,
                           request.layout_type, EffectiveFormat,
                           EffectiveOrientation)

(* C29 witness: a row of two boxes placed for format 'A5' and orientation
   'diagonal' stands where the A3 landscape sheet puts it (x from the left
   margin, y = (297 - 40)/2), not where A4 or a portrait sheet would *)
Wit_C29_A5DiagonalAsA3Landscape ==
    /\ Placed("horizontal")
    /\ request.gost_format = "A5" /\ request.orientation = "diagonal"
    /\ Len(request.components) = 2
    /\ request.components[1].position = 1 /\ request.components[2].position = 2
    /\ <<PageWidth, PageHeight>> = <<420, 297>>
    /\ positions[1] = <<Mm(MARGIN_LEFT), HalfOf(297 - COMPONENT_HEIGHT)>>
    /\ positions[2] = <<Mm(MARGIN_LEFT + 80), HalfOf(297 - COMPONENT_HEIGHT)>>
    /\ positions # calculate_positions(request.components, "horizontal", "A4", "landscape")
    /\ positions # calculate_positions(request.components, "horizontal", "A3", "portrait")

----------------------------------------------------------------------------
(* Properties of the tree layout inside the working area *)

(* the box of the i-th input component lies between the left and the right
   margin of the sheet *)
InsideHorizontally(i) ==
    /\ Mm(MARGIN_LEFT) <= XOf(i)
    /\ XOf(i) + Mm(COMPONENT_WIDTH) <= Mm(PageWidth - MARGIN_RIGHT)

TreeInsideWorkingArea ==
    /\ \A i \in DOMAIN request.components : YOf(i) >= Mm(MARGIN_TOP)
    /\ \A i \in DOMAIN request.components :
          LevelCount(request.components[i].level) <= ItemsPerRow
          => InsideHorizontally(i)

(* C30 as stated: in tree layout every computed y is >= topMargin, and every
   box of a level with at most itemsPerRow components lies between the left
   and the right margin, for every page format and orientation *)
Orig_C30_InsideAnyList ==
    Placed("tree") => TreeInsideWorkingArea

(* C30 amended: for a component list with distinct positions, in tree layout
   every computed y is >= topMargin, and every box of a level with at most
   itemsPerRow components lies between the left and the right margin, for
   every page format and orientation *)
Thm_C30_TreeInsideWorkingArea ==
    TreePlaced => TreeInsideWorkingArea

(* C30 witness: on A4 portrait (one box per row) a list with one component
   on each of two levels is placed inside the margins, while its boxes would
   leave no room for a second one in a row *)
Wit_C30_SingleBoxLevelsOnA4Portrait ==
    /\ TreePlaced
    /\ request.gost_format = "A4" /\ request.orientation = "portrait"
    /\ ItemsPerRow = 1
    /\ Len(request.components) = 2
    /\ request.components[1].level # request.components[2].level
    /\ \A i \in 1..2 : InsideHorizontally(i) /\ XOf(i) = Mm(65)
    /\ \E i \in 1..2 : YOf(i) = Mm(MARGIN_TOP)
    /\ \E i \in 1..2 : YOf(i) > Mm(MARGIN_TOP)

====
